---- MODULE Spec2Model ----
(***************************************************************************)
(* Model of the pandora-campus-downloader pipeline:                        *)
(*   - the download coordinator (downloadPagesAsPDFForRetry,               *)
(*     downloadSinglePage, downloadPagesInBatches) of src/index.ts         *)
(*     (src/unnamed/part_001),                                             *)
(*   - the status check (checkDownloadStatus) of src/check-downloads.ts    *)
(*     (src/unnamed/part_000).                                             *)
(* A book directory is modelled by three variables: metadata (the file     *)
(* metadata.json), output (the file output.json) and pages (every other    *)
(* file of the directory, by name).                                        *)
(***************************************************************************)
EXTENDS Integers, Sequences, FiniteSets

VARIABLES
    tocItems,   \* argument tocItems of the coordinator run
    pc,         \* position of the coordinator run
    i,          \* loop variable i of downloadPagesInBatches
    first,      \* the capture of tocItems[0]: "none", "pending", "ok" or "failed"
    prom,       \* prom[r]: state of downloadPromises' entry for tocItems.slice(1)[r-1]
    attempts,   \* attempts[k]: how many times a task was launched for tocItems[k-1]
    batchLog,   \* sizes of the batches launched so far, in order
    faults,     \* number of non-ideal outcomes the environment has produced
    ctx,        \* {n}: n rendering pages were opened and never closed; {} when not recorded
    pages,      \* files of the book directory other than the two json files
    metadata,   \* metadata.json: AbsentFile, CorruptFile or JsonFile(Metadata)
    output,     \* output.json: AbsentFile or JsonFile(OutputReport)
    now,        \* the clock read by new Date()
    lastOp,     \* the last command that ran on the directory
    reports,    \* the values returned by the latest checkDownloadStatus calls
                \* that ran one after the other with no other command in
                \* between (the last two of them at most)
    retry,      \* position of retryFailedDownloads: "idle", "login", "download"
    failedDocbookIds,   \* the constant failedDocbookIds of retryFailedDownloads
    browser,    \* the variable browser of retryFailedDownloads: TRUE when set
    exit,       \* how the last command ended: "none", "zero", "nonzero"
    cycle,      \* the report of the check a retry followed and, after it, the
                \* report of the check that followed the retry
    title,      \* the argument of sanitizeFileName
    sanitized,  \* the value sanitizeFileName returned, in a set; {} before
    results,    \* the values successive calls of identifyChapters returned
    left,       \* chapterNumber and currentChapter as the last call of
                \* identifyChapters left them
    mpc,        \* position of mergeChapterPDFs: "idle", "loop", "returned",
                \* "threw"
    chapters,   \* the constant chapters of mergeChapterPDFs
    ci,         \* the number of chapters the for loop has gone through
    processed,  \* the files of the directory processed: name -> content
    mergeLog    \* what each call of mergeChapterPages did

vars == <<tocItems, pc, i, first, prom, attempts, batchLog, faults, ctx,
          pages, metadata, output, now, lastOp, reports,
          retry, failedDocbookIds, browser, exit, cycle,
          title, sanitized, results, left, mpc, chapters, ci, processed,
          mergeLog>>

mergeVars == <<title, sanitized, results, left, mpc, chapters, ci, processed,
               mergeLog>>

retryVars == <<retry, failedDocbookIds, browser, exit>>

coordVars == <<tocItems, pc, i, first, prom, attempts, batchLog>>
dirVars == <<pages, metadata, output>>
checkVars == <<now, lastOp, reports, cycle>>

----------------------------------------------------------------------------
(* Bounds *)

MaxPages == 12      \* longest coordinator input
MaxFaults == 1      \* most non-ideal environment outcomes in one run
MaxToc == 2         \* longest table of contents of a manifest
MaxClock == 3       \* the clock stops here

----------------------------------------------------------------------------
(* Strings are sequences of one-character strings. *)

Digits == <<"0", "1", "2", "3", "4", "5", "6", "7", "8", "9">>

AlphaNum ==
    {"a","b","c","d","e","f","g","h","i","j","k","l","m",
     "n","o","p","q","r","s","t","u","v","w","x","y","z",
     "A","B","C","D","E","F","G","H","I","J","K","L","M",
     "N","O","P","Q","R","S","T","U","V","W","X","Y","Z",
     "0","1","2","3","4","5","6","7","8","9"}

Min(a, b) == IF a < b THEN a ELSE b

\* Number.prototype.toString() of a non-negative integer
RECURSIVE NumToString(_)
NumToString(n) ==
    IF n < 10 THEN <<Digits[n + 1]>>
    ELSE NumToString(n \div 10) \o <<Digits[(n % 10) + 1]>>

\* String.prototype.padStart(width, ch)
RECURSIVE PadStart(_, _, _)
PadStart(s, width, ch) ==
    IF Len(s) >= width THEN s ELSE PadStart(<<ch>> \o s, width, ch)

\* docbookId.replace(/[^a-zA-Z0-9]/g, "_")
Sanitize(s) == [k \in 1..Len(s) |-> IF s[k] \in AlphaNum THEN s[k] ELSE "_"]

\* a slice that takes the element at index b as well
SliceInclusive(s, a, b) == SubSeq(s, a + 1, Min(b + 1, Len(s)))

\* Array.prototype.slice(a, b) for 0 <= a <= b
Slice(s, a, b) == SubSeq(s, a + 1, Min(b, Len(s)))

\* the artifact name of a page descriptor
FileName(tocItem) ==
    <<"p", "a", "g", "e", "_">>
        \o PadStart(NumToString(tocItem.pageNum), 3, "0")
        \o <<"_">>
        \o Sanitize(tocItem.docbookId)
        \o <<".", "p", "d", "f">>

----------------------------------------------------------------------------
(* The book directory *)

Sizes == {500, 1000, 1001}      \* file sizes the model distinguishes
CaptureSizes == {500, 1001}     \* sizes page.pdf writes: a blank render, a full one
NoWrite == {}                   \* page.pdf was not reached

NoFiles == [n \in {} |-> 0]

AbsentFile == [kind |-> "absent"]
CorruptFile == [kind |-> "corrupt"]
JsonFile(v) == [kind |-> "json", value |-> v]

File(size, statOk) == [size |-> size, statOk |-> statOk]

\* fs.existsSync(path.join(bookDir, name))
ExistsSync(dir, name) == name \in DOMAIN dir

\* page.pdf({ path: filePath }) creates or replaces the file
WriteFile(dir, name, size) ==
    [n \in (DOMAIN dir) \cup {name} |->
        IF n = name THEN File(size, TRUE) ELSE dir[n]]

\* no merge command has run and nothing has been segmented or sanitized
MergeIdle ==
    /\ title = <<>>
    /\ sanitized = {}
    /\ results = <<>>
    /\ left = [chapterNumber |-> 0, currentChapter |-> {}]
    /\ mpc = "idle"
    /\ chapters = <<>>
    /\ ci = 0
    /\ processed = NoFiles
    /\ mergeLog = <<>>

----------------------------------------------------------------------------
(* The download coordinator *)

batchSize == 10

\* tocItems.slice(1)
Rest == Slice(tocItems, 1, Len(tocItems))

\* a batch that runs to the end of the input
BatchNoCap(from) == Slice(Rest, from, Len(Rest))

\* const batch = tocItems.slice(i, i + batchSize)
Batch(from) == Slice(Rest, from, from + batchSize)

\* positions (1-based, in Rest) of the entries of the batch
BatchPositions(from) == {from + k : k \in 1..Len(Batch(from))}

\* an increment one short of the batch size
NextIndexShort(from) == from + batchSize - 1

\* i += batchSize
NextIndex(from) == from + batchSize

\* What one run of extractAndGeneratePDF behind goto/waitForSelector did:
\* whether it threw, and the size of the file page.pdf wrote (NoWrite if it
\* did not get that far).  A run that does not throw has written the file.
\* tempLeft: extractAndGeneratePDF threw in setContent or pdf, after it
\* had opened its rendering page and before it reached newPage.close().
CaptureResults ==
    {[threw |-> t, wrote |-> w, tempLeft |-> l] :
        t \in BOOLEAN, w \in {{sz} : sz \in CaptureSizes} \cup {NoWrite},
        l \in BOOLEAN}
        \ ({[threw |-> FALSE, wrote |-> NoWrite, tempLeft |-> l] : l \in BOOLEAN}
            \cup {[threw |-> FALSE, wrote |-> {sz}, tempLeft |-> TRUE] :
                    sz \in CaptureSizes})

\* rendering pages are told apart from the other outcomes only in the runs
\* that record them
CaptureResultsFor(c) ==
    IF c = {} THEN {r \in CaptureResults : ~r.tempLeft} ELSE CaptureResults

IdealCapture == [threw |-> FALSE, wrote |-> {1001}, tempLeft |-> FALSE]

\* the rendering pages left open after one more capture
CtxAfter(c, r) ==
    IF c = {} THEN c
    ELSE {n + (IF r.tempLeft THEN 1 ELSE 0) : n \in c}

\* What one task of the batch.map callback did: browser.newPage(), the
\* capture, newPage.close().
ItemOutcomes ==
    {[opened |-> TRUE, cap |-> c, closed |-> cl] :
        c \in CaptureResults, cl \in BOOLEAN}
    \cup {[opened |-> FALSE,
           cap |-> [threw |-> TRUE, wrote |-> NoWrite, tempLeft |-> FALSE],
           closed |-> FALSE]}

ItemOutcomesFor(c) ==
    IF c = {} THEN {o \in ItemOutcomes : ~o.cap.tempLeft} ELSE ItemOutcomes

IdealOutcome == [opened |-> TRUE, cap |-> IdealCapture, closed |-> TRUE]

AfterCapture(dir, tocItem, c) ==
    IF c.wrote = NoWrite THEN dir
    ELSE WriteFile(dir, FileName(tocItem), CHOOSE sz \in c.wrote : TRUE)

\* a first page whose failure is logged and swallowed
AfterFirstSwallow(firstResult, len) == IF len > 1 THEN "loop" ELSE "returned"

\* downloadSinglePage rethrows what the capture throws and
\* downloadPagesAsPDFForRetry rethrows it again; otherwise the run goes on to
\* the batches when there are more pages
AfterFirst(firstResult, len) ==
    IF firstResult = "failed" THEN "threw"
    ELSE IF len > 1 THEN "loop"
    ELSE "returned"

\* The promise of one batch.map callback: downloadSinglePageWithNewPage
\* catches what the capture throws; the callback rejects when newPage() or
\* close() rejects.
ItemPromise(o) ==
    IF ~o.opened THEN "rejected"
    ELSE IF ~o.closed THEN "rejected"
    ELSE "fulfilled"

\* Promise.all: rejects as soon as one entry rejects
PromiseAll(ps) ==
    IF \E r \in DOMAIN ps : ps[r] = "rejected" THEN "rejected"
    ELSE IF \E r \in DOMAIN ps : ps[r] = "pending" THEN "pending"
    ELSE "fulfilled"

\* a batch that is not awaited
AllSettledNoWait(ps) == "fulfilled"

\* a wait that goes on while an entry is rejected
AllSettledStuck(ps) ==
    IF \E r \in DOMAIN ps : ps[r] \in {"pending", "rejected"} THEN "pending"
    ELSE "fulfilled"

\* Promise.allSettled(downloadPromises): pending while an entry is pending,
\* fulfilled afterwards whatever the entries' outcomes
AllSettled(ps) ==
    IF \E r \in DOMAIN ps : ps[r] = "pending" THEN "pending" ELSE "fulfilled"

\* downloadPagesAsPDFForRetry: call downloadSinglePage(page, tocItems[0])
StartFirst ==
    /\ pc = "start"
    /\ pc' = "first"
    /\ first' = "pending"
    /\ attempts' = [attempts EXCEPT ![1] = @ + 1]
    /\ UNCHANGED <<tocItems, i, prom, batchLog, faults>>
    /\ UNCHANGED dirVars
    /\ UNCHANGED checkVars
    /\ UNCHANGED retryVars
    /\ UNCHANGED mergeVars
    /\ UNCHANGED ctx

\* downloadSinglePage settles; downloadPagesAsPDFForRetry goes on to the
\* batches, returns, or rethrows
FirstSettles ==
    /\ pc = "first"
    /\ \E c \in CaptureResultsFor(ctx) :
        /\ c = IdealCapture \/ faults < MaxFaults
        /\ faults' = IF c = IdealCapture THEN faults ELSE faults + 1
        /\ ctx' = CtxAfter(ctx, c)
        /\ pages' = AfterCapture(pages, tocItems[1], c)
        /\ first' = IF c.threw THEN "failed" ELSE "ok"
        /\ pc' = AfterFirst(first', Len(tocItems))
    /\ UNCHANGED <<tocItems, i, prom, attempts, batchLog>>
    /\ UNCHANGED <<metadata, output>>
    /\ UNCHANGED checkVars
    /\ UNCHANGED retryVars
    /\ UNCHANGED mergeVars

\* downloadPagesInBatches: loop test true, batch.map launches every task
BatchStart ==
    /\ pc = "loop"
    /\ i < Len(Rest)
    /\ prom' = [r \in DOMAIN prom |->
                    IF r \in BatchPositions(i) THEN "pending" ELSE prom[r]]
    /\ attempts' = [k \in DOMAIN attempts |->
                    IF (k - 1) \in BatchPositions(i) THEN attempts[k] + 1
                    ELSE attempts[k]]
    /\ batchLog' = Append(batchLog, Len(Batch(i)))
    /\ pc' = "await"
    /\ UNCHANGED <<tocItems, i, first, faults>>
    /\ UNCHANGED dirVars
    /\ UNCHANGED checkVars
    /\ UNCHANGED retryVars
    /\ UNCHANGED mergeVars
    /\ UNCHANGED ctx

\* one task of the batch settles
ItemSettles(r) ==
    /\ prom[r] = "pending"
    /\ \E o \in ItemOutcomesFor(ctx) :
        /\ o = IdealOutcome \/ faults < MaxFaults
        /\ faults' = IF o = IdealOutcome THEN faults ELSE faults + 1
        /\ ctx' = CtxAfter(ctx, o.cap)
        /\ pages' = AfterCapture(pages, Rest[r], o.cap)
        /\ prom' = [prom EXCEPT ![r] = ItemPromise(o)]
    /\ UNCHANGED <<tocItems, pc, i, first, attempts, batchLog>>
    /\ UNCHANGED <<metadata, output>>
    /\ UNCHANGED checkVars
    /\ UNCHANGED retryVars
    /\ UNCHANGED mergeVars

\* await Promise.allSettled(downloadPromises) resumes
AwaitBatch ==
    /\ pc = "await"
    /\ LET res == AllSettled([r \in BatchPositions(i) |-> prom[r]])
       IN /\ res # "pending"
          /\ pc' = IF res = "fulfilled" THEN "delay" ELSE "threw"
    /\ UNCHANGED <<tocItems, i, first, prom, attempts, batchLog, faults>>
    /\ UNCHANGED dirVars
    /\ UNCHANGED checkVars
    /\ UNCHANGED retryVars
    /\ UNCHANGED mergeVars
    /\ UNCHANGED ctx

\* the 2 s pause ends; i += batchSize
DelayDone ==
    /\ pc = "delay"
    /\ i' = NextIndex(i)
    /\ pc' = "loop"
    /\ UNCHANGED <<tocItems, first, prom, attempts, batchLog, faults>>
    /\ UNCHANGED dirVars
    /\ UNCHANGED checkVars
    /\ UNCHANGED retryVars
    /\ UNCHANGED mergeVars
    /\ UNCHANGED ctx

\* downloadPagesInBatches: loop test false, return
LoopExit ==
    /\ pc = "loop"
    /\ ~(i < Len(Rest))
    /\ pc' = "returned"
    /\ UNCHANGED <<tocItems, i, first, prom, attempts, batchLog, faults>>
    /\ UNCHANGED dirVars
    /\ UNCHANGED checkVars
    /\ UNCHANGED retryVars
    /\ UNCHANGED mergeVars
    /\ UNCHANGED ctx

----------------------------------------------------------------------------
(* Coordinator runs on inputs of 1..MaxPages descriptors *)

\* a table of contents as the extraction step produces it: pageNum is index + 1
TocOfLen(n) ==
    [k \in 1..n |->
        [docbookId |-> <<"_">> \o NumToString(k), title |-> "t", pageNum |-> k]]

InitCoord ==
    /\ tocItems \in {TocOfLen(n) : n \in 1..MaxPages}
    /\ pc = "start"
    /\ i = 0
    /\ first = "none"
    /\ prom = [r \in 1..(Len(tocItems) - 1) |-> "none"]
    /\ attempts = [k \in 1..Len(tocItems) |-> 0]
    /\ batchLog = <<>>
    /\ faults = 0
    /\ ctx = {}
    /\ pages = NoFiles
    /\ metadata = AbsentFile
    /\ output = AbsentFile
    /\ now = 0
    /\ lastOp = "none"
    /\ reports = <<>>
    /\ retry = "idle"
    /\ failedDocbookIds = <<>>
    /\ browser = FALSE
    /\ exit = "none"
    /\ cycle = <<>>
    /\ MergeIdle

NextCoord ==
    \/ StartFirst
    \/ FirstSettles
    \/ BatchStart
    \/ \E r \in DOMAIN prom : ItemSettles(r)
    \/ AwaitBatch
    \/ DelayDone
    \/ LoopExit

SpecCoord == InitCoord /\ [][NextCoord]_vars

\* the inputs of the runs whose termination is checked: one page, one batch
\* of one page, and the longest input, which takes two batches
LiveLens == {1, 2, MaxPages}

\* these runs start with one non-ideal outcome left to the environment: one
\* capture that fails is what the termination of a batch depends on

InitLive ==
    /\ tocItems \in {TocOfLen(n) : n \in LiveLens}
    /\ pc = "start"
    /\ i = 0
    /\ first = "none"
    /\ prom = [r \in 1..(Len(tocItems) - 1) |-> "none"]
    /\ attempts = [k \in 1..Len(tocItems) |-> 0]
    /\ batchLog = <<>>
    /\ faults = MaxFaults - 1
    /\ ctx = {}
    /\ pages = NoFiles
    /\ metadata = AbsentFile
    /\ output = AbsentFile
    /\ now = 0
    /\ lastOp = "none"
    /\ reports = <<>>
    /\ retry = "idle"
    /\ failedDocbookIds = <<>>
    /\ browser = FALSE
    /\ exit = "none"
    /\ cycle = <<>>
    /\ MergeIdle

\* every capture that was started settles, and every step of the
\* coordinator that can be taken is taken: a call, the resumption of an
\* await, the end of the 2 s timer
LiveFairness ==
    /\ WF_vars(StartFirst)
    /\ WF_vars(FirstSettles)
    /\ WF_vars(BatchStart)
    /\ WF_vars(\E r \in DOMAIN prom : ItemSettles(r))
    /\ WF_vars(AwaitBatch)
    /\ WF_vars(DelayDone)
    /\ WF_vars(LoopExit)

SpecLive == InitLive /\ [][NextCoord]_vars /\ LiveFairness

----------------------------------------------------------------------------
(* The status check: checkDownloadStatus *)

bookDir == <<"d", "o", "w", "n", "l", "o", "a", "d", "s", "/", "b">>

\* path.join(bookDir, fileName)
PathJoin(dir, name) == dir \o <<"/">> \o name

\* the value of fileSize when statSync threw or the file does not exist
Undefined == {}

\* a threshold that lets a file of exactly 1000 bytes pass
ClassifyAtLeast(fileExists, fileSize) ==
    IF fileExists /\ (fileSize = Undefined \/ \E sz \in fileSize : sz >= 1000)
    THEN "success" ELSE "failed"

\* fileExists && (fileSize === undefined || fileSize > 1000) ? "success" : "failed"
Classify(fileExists, fileSize) ==
    IF fileExists /\ (fileSize = Undefined \/ \E sz \in fileSize : sz > 1000)
    THEN "success" ELSE "failed"

\* the artifact name checkDownloadStatus looks up for a manifest entry
CheckFileName(tocItem) ==
    <<"p", "a", "g", "e", "_">>
        \o PadStart(NumToString(tocItem.pageNum), 3, "0")
        \o <<"_">>
        \o Sanitize(tocItem.docbookId)
        \o <<".", "p", "d", "f">>

\* the body of the loop over metadata.tableOfContents
StatusOf(dir, tocItem) ==
    LET fileName == CheckFileName(tocItem)
        fileExists == ExistsSync(dir, fileName)
        fileSize == IF fileExists /\ dir[fileName].statOk
                    THEN {dir[fileName].size} ELSE Undefined
    IN [docbookId |-> tocItem.docbookId,
        title |-> tocItem.title,
        pageNum |-> tocItem.pageNum,
        status |-> Classify(fileExists, fileSize),
        fileName |-> fileName,
        filePath |-> PathJoin(bookDir, fileName),
        fileExists |-> fileExists,
        fileSize |-> fileSize]

DownloadStatuses(toc, dir) == [k \in 1..Len(toc) |-> StatusOf(dir, toc[k])]

\* a loop that puts each failed entry in front of the earlier ones
RECURSIVE FailedItemsUnshift(_, _, _)
FailedItemsUnshift(toc, statuses, n) ==
    IF n = 0 THEN <<>>
    ELSE IF statuses[n].status = "failed"
         THEN <<toc[n]>> \o FailedItemsUnshift(toc, statuses, n - 1)
         ELSE FailedItemsUnshift(toc, statuses, n - 1)

\* failedItems after the first n iterations of the loop
RECURSIVE FailedItems(_, _, _)
FailedItems(toc, statuses, n) ==
    IF n = 0 THEN <<>>
    ELSE IF statuses[n].status = "failed"
         THEN Append(FailedItems(toc, statuses, n - 1), toc[n])
         ELSE FailedItems(toc, statuses, n - 1)

IsSuccess(st) == st.status = "success"
IsFailed(st) == st.status = "failed"
FileIsThere(st) == st.fileExists

\* a success count that counts the files that exist
SuccessCountExisting(statuses) == Len(SelectSeq(statuses, FileIsThere))

\* downloadStatuses.filter(s => s.status === "success").length
SuccessCount(statuses) == Len(SelectSeq(statuses, IsSuccess))

\* downloadStatuses.filter(s => s.status === "failed").length
FailedCount(statuses) == Len(SelectSeq(statuses, IsFailed))

\* the OutputReport that checkDownloadStatus builds and returns
Report(md, dir, time) ==
    LET statuses == DownloadStatuses(md.tableOfContents, dir)
    IN [bookNumber |-> md.bookNumber,
        checkedAt |-> time,
        totalPages |-> md.totalPages,
        successCount |-> SuccessCount(statuses),
        failedCount |-> FailedCount(statuses),
        downloadStatuses |-> statuses,
        failedItems |-> FailedItems(md.tableOfContents, statuses, Len(statuses))]

\* a check that deletes the artifacts it classifies as failed
DirAfterCheckPrune(dir, report) ==
    [n \in (DOMAIN dir) \ {FileName(it) : it \in
            {report.failedItems[k] : k \in DOMAIN report.failedItems}}
        |-> dir[n]]

\* a check that creates an empty artifact for every page it misses
DirAfterCheckTouch(dir, report) ==
    [n \in (DOMAIN dir) \cup {FileName(it) : it \in
            {report.failedItems[k] : k \in DOMAIN report.failedItems}}
        |-> IF n \in DOMAIN dir THEN dir[n] ELSE File(500, TRUE)]

\* the page files after checkDownloadStatus: its only write is output.json
DirAfterCheck(dir, report) == dir

\* a retry command is running
CoordRunning ==
    \/ pc \in {"start", "first", "loop", "await", "delay"}
    \/ retry # "idle"

\* the values of lastOp a retry command leaves when it has ended
RetryEnded == {"retried", "retryFailed", "retryNothing", "retryLoginFailed"}

\* checkDownloadStatus returns a report
CheckOk ==
    /\ ~CoordRunning
    /\ metadata.kind = "json"
    /\ LET report == Report(metadata.value, pages, now)
       IN /\ output' = JsonFile(report)
          /\ pages' = DirAfterCheck(pages, report)
          /\ reports' = IF lastOp = "check"
                        THEN <<reports[Len(reports)], report>>
                        ELSE <<report>>
    /\ lastOp' = "check"
    /\ exit' = "zero"
    /\ cycle' = IF lastOp \in RetryEnded /\ Len(cycle) = 1
                THEN <<cycle[1], Report(metadata.value, pages, now)>>
                ELSE <<>>
    /\ UNCHANGED <<metadata, now, faults>>
    /\ UNCHANGED coordVars
    /\ UNCHANGED <<retry, failedDocbookIds, browser>>
    /\ UNCHANGED mergeVars
    /\ UNCHANGED ctx

\* a check that leaves an empty report behind when it cannot read the manifest
OutputAfterThrowEmpty(out) ==
    JsonFile([bookNumber |-> "undefined", checkedAt |-> 0, totalPages |-> 0,
              successCount |-> 0, failedCount |-> 0,
              downloadStatuses |-> <<>>, failedItems |-> <<>>])

\* output.json after checkDownloadStatus threw: the throw comes before the
\* only writeFileSync
OutputAfterThrow(out) == out

\* checkDownloadStatus throws: metadata.json is missing or JSON.parse fails
CheckThrows ==
    /\ ~CoordRunning
    /\ metadata.kind # "json"
    /\ lastOp' = "checkThrew"
    /\ output' = OutputAfterThrow(output)
    /\ exit' = "nonzero"
    /\ cycle' = <<>>
    /\ UNCHANGED <<reports, now, faults>>
    /\ UNCHANGED <<pages, metadata>>
    /\ UNCHANGED coordVars
    /\ UNCHANGED <<retry, failedDocbookIds, browser>>
    /\ UNCHANGED mergeVars
    /\ UNCHANGED ctx

\* time passes
Tick ==
    /\ now < MaxClock
    /\ now' = now + 1
    /\ UNCHANGED <<lastOp, reports, faults, cycle>>
    /\ UNCHANGED dirVars
    /\ UNCHANGED coordVars
    /\ UNCHANGED retryVars
    /\ UNCHANGED mergeVars
    /\ UNCHANGED ctx

----------------------------------------------------------------------------
(* Checks of a book directory as earlier downloads left it *)

BookNumbers == {"undefined", "10.978.8815/415073"}

DocbookIds == {<<"_", "1">>, <<"a", ".", "1">>, <<"a", "_", "1">>}

\* the tables of contents of n entries the extraction step can produce
Tocs(n) ==
    {[k \in 1..n |-> [docbookId |-> ids[k], title |-> "t", pageNum |-> k]] :
        ids \in [1..n -> DocbookIds]}

\* the metadata object downloadPagesAsPDF writes
MakeMetadata(bookNumber, items, time) ==
    [bookNumber |-> bookNumber,
     extractedAt |-> time,
     totalPages |-> Len(items),
     tableOfContents |-> items]

FileStates == {File(sz, ok) : sz \in Sizes, ok \in BOOLEAN}

\* the page files a directory can hold under the given names
DirStates(names) == UNION {[S -> FileStates] : S \in SUBSET names}

ExpectedNames(md) ==
    {FileName(md.tableOfContents[k]) : k \in DOMAIN md.tableOfContents}

\* an output.json an earlier check wrote before the manifest was lost
StaleOutput(dir) ==
    JsonFile(Report(MakeMetadata("undefined", TocOfLen(1), 0), dir, 0))

InitCheck ==
    /\ metadata \in {AbsentFile, CorruptFile}
            \cup {JsonFile(MakeMetadata(b, t, 0)) :
                    b \in BookNumbers, t \in UNION {Tocs(n) : n \in 1..MaxToc}}
    /\ pages \in DirStates(IF metadata.kind = "json"
                           THEN ExpectedNames(metadata.value)
                           ELSE {FileName(TocOfLen(1)[1])})
    /\ output \in IF metadata.kind = "json"
                  THEN {AbsentFile}
                  ELSE {AbsentFile, CorruptFile, StaleOutput(pages)}
    /\ now = 0
    /\ lastOp = "none"
    /\ reports = <<>>
    /\ tocItems = <<>>
    /\ pc = "idle"
    /\ i = 0
    /\ first = "none"
    /\ prom = <<>>
    /\ attempts = <<>>
    /\ batchLog = <<>>
    /\ faults = 0
    /\ ctx = {}
    /\ retry = "idle"
    /\ failedDocbookIds = <<>>
    /\ browser = FALSE
    /\ exit = "none"
    /\ cycle = <<>>
    /\ MergeIdle

NextCheck ==
    \/ CheckOk
    \/ CheckThrows
    \/ Tick

SpecCheck == InitCheck /\ [][NextCheck]_vars

----------------------------------------------------------------------------
(* The retry command: getFailedItems and retryFailedDownloads *)

\* getFailedItems throws: checkDownloadStatus throws when output.json is
\* missing, JSON.parse throws when output.json is not valid JSON
GetFailedItemsThrows(out, md) ==
    IF out.kind = "absent" THEN md.kind # "json" ELSE out.kind # "json"

\* a getFailedItems that returns every page of the book
GetAllItems(out, md, dir, time) ==
    LET r == IF out.kind = "absent" THEN Report(md.value, dir, time)
             ELSE out.value
    IN [k \in DOMAIN r.downloadStatuses |->
            [docbookId |-> r.downloadStatuses[k].docbookId,
             title |-> r.downloadStatuses[k].title,
             pageNum |-> r.downloadStatuses[k].pageNum]]

\* the value getFailedItems returns when it does not throw
GetFailedItems(out, md, dir, time) ==
    IF out.kind = "absent"
    THEN Report(md.value, dir, time).failedItems
    ELSE out.value.failedItems

\* output.json after getFailedItems returned: written by the check it runs
\* when the file is missing
OutputAfterGetFailedItems(out, md, dir, time) ==
    IF out.kind = "absent" THEN JsonFile(Report(md.value, dir, time)) ELSE out

\* a retry that logs in whatever the list holds
NothingToRetryNever(failedItems) == FALSE

\* failedItems.length === 0
NothingToRetry(failedItems) == Len(failedItems) = 0

\* a list of ids built back to front
FailedDocbookIdsReversed(failedItems) ==
    [k \in DOMAIN failedItems |->
        failedItems[Len(failedItems) + 1 - k].docbookId]

\* failedItems.map((item) => item.docbookId)
FailedDocbookIds(failedItems) ==
    [k \in DOMAIN failedItems |-> failedItems[k].docbookId]

\* Array.prototype.find: the first entry with the id, if there is one
Find(entries, docbookId) ==
    LET hits == {k \in DOMAIN entries : entries[k].docbookId = docbookId}
    IN IF hits = {} THEN {}
       ELSE {entries[CHOOSE k \in hits : \A h \in hits : k <= h]}

\* `Unknown Title (${docbookId})`
UnknownTitle(docbookId) ==
    <<"U", "n", "k", "n", "o", "w", "n", " ", "T", "i", "t", "l", "e", " ", "(">>
        \o docbookId \o <<")">>

\* `Retry Page ${index + 1}`
RetryPageTitle(k) ==
    <<"R", "e", "t", "r", "y", " ", "P", "a", "g", "e", " ">> \o NumToString(k)

\* a descriptor that takes the title of the entry and not its page number
FromEntryPlaceholder(docbookId, found) ==
    [docbookId |-> docbookId,
     title |-> IF found = {} THEN UnknownTitle(docbookId)
               ELSE (CHOOSE e \in found : TRUE).title,
     pageNum |-> 0]

\* the descriptor built from the entry find returned
FromEntry(docbookId, found) ==
    [docbookId |-> docbookId,
     title |-> IF found = {} THEN UnknownTitle(docbookId)
               ELSE (CHOOSE e \in found : TRUE).title,
     pageNum |-> IF found = {} THEN 0 ELSE (CHOOSE e \in found : TRUE).pageNum]

\* the last resort: made-up titles and page numbers
FakeData(ids) ==
    [k \in DOMAIN ids |->
        [docbookId |-> ids[k], title |-> RetryPageTitle(k), pageNum |-> k]]

\* tocItems as retryFailedDownloads rebuilds it from output.json, else from
\* metadata.json, else from nothing
Reconstruct(out, md, ids) ==
    IF out.kind # "absent"
    THEN IF out.kind = "json"
         THEN [k \in DOMAIN ids |->
                  FromEntry(ids[k], Find(out.value.downloadStatuses, ids[k]))]
         ELSE FakeData(ids)
    ELSE IF md.kind # "absent"
    THEN IF md.kind = "json"
         THEN [k \in DOMAIN ids |->
                  FromEntry(ids[k], Find(md.value.tableOfContents, ids[k]))]
         ELSE FakeData(ids)
    ELSE FakeData(ids)

\* a retry that goes through downloadPagesAsPDF, which writes the manifest
ManifestAfterDownload(md, items, time) ==
    JsonFile(MakeMetadata("undefined", items, time))

\* metadata.json once downloadPagesAsPDFForRetry has been entered: it
\* "doesn't create directories or metadata"
ManifestAfterRetry(md, items, time) == md

\* a retry that ends with a check of its own
OutputAfterRetryChecked(out, md, dir, time) ==
    IF md.kind = "json" THEN JsonFile(Report(md.value, dir, time)) ELSE out

\* output.json when retryFailedDownloads returns: nothing writes it after
\* getFailedItems
OutputAfterRetry(out, md, dir, time) == out

\* a retry that reports failure whenever it had something to capture
ExitAfterDownloadStrict(pcv) == "nonzero"

\* the exit status after downloadPagesAsPDFForRetry: process.exit(1) in the
\* catch when it threw, the normal end of the process otherwise
ExitAfterDownload(pcv) == IF pcv = "threw" THEN "nonzero" ELSE "zero"

\* retry: getFailedItems throws and the CLI's catch calls process.exit(1)
RetryThrows ==
    /\ ~CoordRunning
    /\ GetFailedItemsThrows(output, metadata)
    /\ lastOp' = "retryThrew"
    /\ exit' = "nonzero"
    /\ UNCHANGED <<retry, failedDocbookIds, browser>>
    /\ cycle' = IF lastOp = "check" THEN <<output.value>> ELSE <<>>
    /\ UNCHANGED <<now, reports, faults>>
    /\ UNCHANGED dirVars
    /\ UNCHANGED coordVars
    /\ UNCHANGED mergeVars
    /\ UNCHANGED ctx

\* retry: nothing has failed, retryFailedDownloads returns at once
RetryNothingToDo ==
    /\ ~CoordRunning
    /\ ~GetFailedItemsThrows(output, metadata)
    /\ NothingToRetry(GetFailedItems(output, metadata, pages, now))
    /\ output' = OutputAfterGetFailedItems(output, metadata, pages, now)
    /\ lastOp' = "retryNothing"
    /\ exit' = "zero"
    /\ UNCHANGED <<retry, failedDocbookIds, browser>>
    /\ cycle' = IF lastOp = "check" THEN <<output.value>> ELSE <<>>
    /\ UNCHANGED <<now, reports, faults>>
    /\ UNCHANGED <<pages, metadata>>
    /\ UNCHANGED coordVars
    /\ UNCHANGED mergeVars
    /\ UNCHANGED ctx

\* retry: something has failed, retryFailedDownloads goes on to the login
RetryBegin ==
    /\ ~CoordRunning
    /\ ~GetFailedItemsThrows(output, metadata)
    /\ LET failedItems == GetFailedItems(output, metadata, pages, now)
       IN /\ ~NothingToRetry(failedItems)
          /\ failedDocbookIds' = FailedDocbookIds(failedItems)
    /\ output' = OutputAfterGetFailedItems(output, metadata, pages, now)
    /\ retry' = "login"
    /\ browser' = FALSE
    /\ exit' = "none"
    /\ lastOp' = "retry"
    /\ cycle' = IF lastOp = "check" THEN <<output.value>> ELSE <<>>
    /\ UNCHANGED <<now, reports, faults>>
    /\ UNCHANGED <<pages, metadata>>
    /\ UNCHANGED coordVars
    /\ UNCHANGED mergeVars
    /\ UNCHANGED ctx

\* loginToPandoraCampus rejects: the catch calls process.exit(1)
LoginFails ==
    /\ retry = "login"
    /\ faults < MaxFaults
    /\ faults' = faults + 1
    /\ retry' = "idle"
    /\ exit' = "nonzero"
    /\ lastOp' = "retryLoginFailed"
    /\ UNCHANGED <<failedDocbookIds, browser>>
    /\ UNCHANGED <<now, reports, cycle>>
    /\ UNCHANGED dirVars
    /\ UNCHANGED coordVars
    /\ UNCHANGED mergeVars
    /\ UNCHANGED ctx

\* loginToPandoraCampus resolves: tocItems is rebuilt and
\* downloadPagesAsPDFForRetry is called
LoginOk ==
    /\ retry = "login"
    /\ browser' = TRUE
    /\ tocItems' = Reconstruct(output, metadata, failedDocbookIds)
    /\ metadata' = ManifestAfterRetry(metadata, tocItems', now)
    /\ retry' = "download"
    /\ pc' = "start"
    /\ i' = 0
    /\ first' = "none"
    /\ prom' = [r \in 1..(Len(tocItems') - 1) |-> "none"]
    /\ attempts' = [k \in 1..Len(tocItems') |-> 0]
    /\ batchLog' = <<>>
    /\ UNCHANGED <<failedDocbookIds, exit>>
    /\ UNCHANGED <<pages, output>>
    /\ UNCHANGED <<faults>>
    /\ UNCHANGED checkVars
    /\ UNCHANGED mergeVars
    /\ UNCHANGED ctx

\* downloadPagesAsPDFForRetry has returned or thrown: the browser is closed
\* in the finally unless process.exit(1) ended the process in the catch
RetryEnds ==
    /\ retry = "download"
    /\ pc \in {"returned", "threw"}
    /\ retry' = "idle"
    /\ exit' = ExitAfterDownload(pc)
    /\ browser' = (pc = "threw")
    /\ output' = OutputAfterRetry(output, metadata, pages, now)
    /\ lastOp' = IF pc = "threw" THEN "retryFailed" ELSE "retried"
    /\ UNCHANGED <<failedDocbookIds>>
    /\ UNCHANGED <<now, reports, faults, cycle>>
    /\ UNCHANGED <<pages, metadata>>
    /\ UNCHANGED coordVars
    /\ UNCHANGED mergeVars
    /\ UNCHANGED ctx

----------------------------------------------------------------------------
(* The cleanup command: getExpectedFiles and cleanupDirectory *)

OutputJson == <<"o", "u", "t", "p", "u", "t", ".", "j", "s", "o", "n">>
MetadataJson == <<"m", "e", "t", "a", "d", "a", "t", "a", ".", "j", "s", "o", "n">>

\* a file of the directory that no manifest names
NotesTxt == <<"n", "o", "t", "e", "s", ".", "t", "x", "t">>

\* a name built from the raw id
CleanupFileNameRaw(item) ==
    <<"p", "a", "g", "e", "_">>
        \o PadStart(NumToString(item.pageNum), 3, "0")
        \o <<"_">>
        \o item.docbookId
        \o <<".", "p", "d", "f">>

\* the name getExpectedFiles generates for a manifest entry
CleanupFileName(item) ==
    <<"p", "a", "g", "e", "_">>
        \o PadStart(NumToString(item.pageNum), 3, "0")
        \o <<"_">>
        \o Sanitize(item.docbookId)
        \o <<".", "p", "d", "f">>

\* getExpectedFiles: the two json files always; the fileName of every status
\* of output.json when it exists, else a generated name for every manifest
\* entry; what JSON.parse throws is caught
GetExpectedFiles(out, md) ==
    {OutputJson, MetadataJson} \cup
    (IF out.kind # "absent"
     THEN IF out.kind = "json"
          THEN {out.value.downloadStatuses[k].fileName :
                    k \in DOMAIN out.value.downloadStatuses}
          ELSE {}
     ELSE IF md.kind = "json"
          THEN {CleanupFileName(md.value.tableOfContents[k]) :
                    k \in DOMAIN md.value.tableOfContents}
          ELSE {})

\* allFiles.forEach: the files of the directory that are not expected
FilesToDelete(dir, out, md) == (DOMAIN dir) \ GetExpectedFiles(out, md)

\* the directory with the given files unlinked
Unlink(dir, names) == [n \in (DOMAIN dir) \ names |-> dir[n]]

\* cleanupDirectory: fs.statSync of a file to delete throws, uncaught
CleanupThrows(live) ==
    /\ ~CoordRunning
    /\ \E n \in FilesToDelete(pages, output, metadata) : ~pages[n].statOk
    /\ lastOp' = "cleanupThrew"
    /\ exit' = "nonzero"
    /\ UNCHANGED <<retry, failedDocbookIds, browser>>
    /\ cycle' = <<>>
    /\ UNCHANGED <<now, reports, faults>>
    /\ UNCHANGED dirVars
    /\ UNCHANGED coordVars
    /\ UNCHANGED mergeVars
    /\ UNCHANGED ctx

\* cleanupDirectory runs to its end; in live mode every file to delete is
\* unlinked unless unlinkSync throws for it
Cleanup(live) ==
    /\ ~CoordRunning
    /\ \A n \in FilesToDelete(pages, output, metadata) : pages[n].statOk
    /\ \E kept \in SUBSET FilesToDelete(pages, output, metadata) :
        /\ kept = {} \/ faults < MaxFaults
        /\ faults' = IF kept = {} THEN faults ELSE faults + 1
        /\ pages' = IF live
                    THEN Unlink(pages,
                            FilesToDelete(pages, output, metadata) \ kept)
                    ELSE pages
        /\ live \/ kept = {}
    /\ lastOp' = IF live THEN "cleanupLive" ELSE "cleanupDry"
    /\ exit' = "zero"
    /\ UNCHANGED <<retry, failedDocbookIds, browser>>
    /\ cycle' = <<>>
    /\ UNCHANGED <<now, reports>>
    /\ UNCHANGED <<metadata, output>>
    /\ UNCHANGED coordVars
    /\ UNCHANGED mergeVars
    /\ UNCHANGED ctx

----------------------------------------------------------------------------
(* Commands run one after the other on a book directory *)

\* the page files an earlier download can have left: none, a blank render
\* or a full one for each manifest entry
LeftFileStates == {File(sz, TRUE) : sz \in CaptureSizes}

LeftDirStates(names) == UNION {[S -> LeftFileStates] : S \in SUBSET names}

\* the directory with a stray file in it
WithNotes(dir, statOk) ==
    [n \in (DOMAIN dir) \cup {NotesTxt} |->
        IF n = NotesTxt THEN File(500, statOk) ELSE dir[n]]

\* ids of the books the retries are run on: one that sanitizing changes, one
\* that it keeps
RetryDocbookIds == {<<"a", ".", "1">>, <<"b", "1">>}

\* the tables of contents of n entries with these ids
RetryTocs(n) ==
    {[k \in 1..n |-> [docbookId |-> ids[k], title |-> "t", pageNum |-> k]] :
        ids \in [1..n -> RetryDocbookIds]}

InitDir ==
    /\ metadata \in {AbsentFile, CorruptFile}
            \cup {JsonFile(MakeMetadata("undefined", t, 0)) :
                    t \in UNION {RetryTocs(n) : n \in 1..MaxToc}}
    /\ \E d \in LeftDirStates(IF metadata.kind = "json"
                              THEN ExpectedNames(metadata.value)
                              ELSE {FileName(TocOfLen(1)[1])}) :
        /\ pages \in {d, WithNotes(d, TRUE), WithNotes(d, FALSE)}
        /\ output \in IF metadata.kind = "json"
                      THEN {AbsentFile, CorruptFile}
                      ELSE {AbsentFile, CorruptFile, StaleOutput(d)}
    /\ now = 0
    /\ lastOp = "none"
    /\ reports = <<>>
    /\ tocItems = <<>>
    /\ pc = "idle"
    /\ i = 0
    /\ first = "none"
    /\ prom = <<>>
    /\ attempts = <<>>
    /\ batchLog = <<>>
    /\ faults = 0
    /\ ctx = {}
    /\ retry = "idle"
    /\ failedDocbookIds = <<>>
    /\ browser = FALSE
    /\ exit = "none"
    /\ cycle = <<>>
    /\ MergeIdle

NextDir ==
    \/ CheckOk
    \/ CheckThrows
    \/ RetryThrows
    \/ RetryNothingToDo
    \/ RetryBegin
    \/ LoginFails
    \/ LoginOk
    \/ StartFirst
    \/ FirstSettles
    \/ BatchStart
    \/ \E r \in DOMAIN prom : ItemSettles(r)
    \/ AwaitBatch
    \/ DelayDone
    \/ LoopExit
    \/ RetryEnds
    \/ \E live \in BOOLEAN : CleanupThrows(live)
    \/ \E live \in BOOLEAN : Cleanup(live)

SpecDir == InitDir /\ [][NextDir]_vars

----------------------------------------------------------------------------
(* sanitizeFileName.  A character outside ASCII is written by its name. *)

UpperCase ==
    <<"A","B","C","D","E","F","G","H","I","J","K","L","M",
      "N","O","P","Q","R","S","T","U","V","W","X","Y","Z">>

LowerCase ==
    <<"a","b","c","d","e","f","g","h","i","j","k","l","m",
      "n","o","p","q","r","s","t","u","v","w","x","y","z">>

\* String.prototype.toLowerCase on the characters the model uses
ToLowerCase(s) ==
    [k \in DOMAIN s |->
        IF \E j \in DOMAIN UpperCase : UpperCase[j] = s[k]
        THEN LowerCase[CHOOSE j \in DOMAIN UpperCase : UpperCase[j] = s[k]]
        ELSE s[k]]

\* the characters \s matches
Whitespace == {" ", "\t", "\n"}

\* the characters \d matches
DigitChars == {Digits[k] : k \in DOMAIN Digits}

\* s.replace(/[set]/g, c) for a character c
ReplaceChars(s, set, c) == [k \in DOMAIN s |-> IF s[k] \in set THEN c ELSE s[k]]

\* s.replace(/[set]/g, "")
RemoveChars(s, set) == SelectSeq(s, LAMBDA c : c \notin set)

\* s.replace(/\s+/g, "_"): every run of whitespace becomes one underscore
CollapseWhitespace(s) ==
    LET starts == SelectSeq([k \in DOMAIN s |-> k],
                    LAMBDA k : \/ s[k] \notin Whitespace
                               \/ k = 1
                               \/ s[k - 1] \notin Whitespace)
    IN [j \in DOMAIN starts |->
            IF s[starts[j]] \in Whitespace THEN "_" ELSE s[starts[j]]]

\* s.replace(/^_+|_+$/g, "")
TrimUnderscores(s) ==
    LET others == {k \in DOMAIN s : s[k] # "_"}
    IN IF others = {} THEN <<>>
       ELSE SubSeq(s, CHOOSE k \in others : \A j \in others : k <= j,
                      CHOOSE k \in others : \A j \in others : k >= j)

\* a substring that keeps the whole string
SubstringToEnd(s, a, b) == SubSeq(s, a + 1, Len(s))

\* String.prototype.substring(a, b) for 0 <= a <= b
Substring(s, a, b) == SubSeq(s, a + 1, Min(b, Len(s)))

AccentedA == {"a-grave", "a-acute", "a-circumflex", "a-tilde", "a-diaeresis",
              "a-ring"}
AccentedE == {"e-grave", "e-acute", "e-circumflex", "e-diaeresis"}
AccentedI == {"i-grave", "i-acute", "i-circumflex", "i-diaeresis"}
AccentedO == {"o-grave", "o-acute", "o-circumflex", "o-tilde", "o-diaeresis"}
AccentedU == {"u-grave", "u-acute", "u-circumflex", "u-diaeresis"}

\* the characters [a-zA-Z0-9\s\-_.] lets through
Kept == AlphaNum \cup Whitespace \cup {"-", "_", "."}

\* .replace(/[^a-zA-Z0-9\s\-_.]/g, "")
RemoveSpecial(s) == SelectSeq(s, LAMBDA c : c \in Kept)

maxFileNameLength == 80

sanitizeFileName(t) ==
    LET s1 == ReplaceChars(t, AccentedA, "a")
        s2 == ReplaceChars(s1, AccentedE, "e")
        s3 == ReplaceChars(s2, AccentedI, "i")
        s4 == ReplaceChars(s3, AccentedO, "o")
        s5 == ReplaceChars(s4, AccentedU, "u")
        s6 == ReplaceChars(s5, {"c-cedilla"}, "c")
        s7 == ReplaceChars(s6, {"n-tilde"}, "n")
        s8 == RemoveChars(s7, {"'", "backtick"})
        s9 == RemoveSpecial(s8)
        s10 == CollapseWhitespace(s9)
        s11 == TrimUnderscores(s10)
        s12 == ToLowerCase(s11)
    IN Substring(s12, 0, maxFileNameLength)

(* Titles handed to sanitizeFileName *)

MaxTitleLen == 3    \* longest title tail

TitleChars == {"a", "B", " ", "_", "e-grave", "E-grave", "'", "!", "."}

\* n times the character c
Repeat(c, n) == [k \in 1..n |-> c]

\* all strings over TitleChars of the given length
TitleTails(n) == [1..n -> TitleChars]

\* titles of a few characters and titles that reach the length limit
Titles ==
    {head \o tail :
        head \in {<<>>, Repeat("x", maxFileNameLength - 2)},
        tail \in UNION {TitleTails(n) : n \in 0..MaxTitleLen}}

\* one call of sanitizeFileName
SanitizeCall ==
    /\ sanitized = {}
    /\ sanitized' = {sanitizeFileName(title)}
    /\ UNCHANGED <<title, results, left, mpc, chapters, ci, processed,
                   mergeLog>>
    /\ UNCHANGED <<faults, cycle>>
    /\ UNCHANGED <<now, lastOp, reports>>
    /\ UNCHANGED dirVars
    /\ UNCHANGED coordVars
    /\ UNCHANGED retryVars
    /\ UNCHANGED ctx

\* the variables of the commands that do not run
CommandsIdle ==
    /\ pages = NoFiles
    /\ metadata = AbsentFile
    /\ output = AbsentFile
    /\ now = 0
    /\ lastOp = "none"
    /\ reports = <<>>
    /\ tocItems = <<>>
    /\ pc = "idle"
    /\ i = 0
    /\ first = "none"
    /\ prom = <<>>
    /\ attempts = <<>>
    /\ batchLog = <<>>
    /\ faults = 0
    /\ ctx = {}
    /\ retry = "idle"
    /\ failedDocbookIds = <<>>
    /\ browser = FALSE
    /\ exit = "none"
    /\ cycle = <<>>

InitSanitize ==
    /\ title \in Titles
    /\ sanitized = {}
    /\ results = <<>>
    /\ left = [chapterNumber |-> 0, currentChapter |-> {}]
    /\ mpc = "idle"
    /\ chapters = <<>>
    /\ ci = 0
    /\ processed = NoFiles
    /\ mergeLog = <<>>
    /\ CommandsIdle

NextSanitize == SanitizeCall

SpecSanitize == InitSanitize /\ [][NextSanitize]_vars

----------------------------------------------------------------------------
(* identifyChapters *)

\* String.prototype.includes
Includes(s, sub) ==
    \E k \in 0..(Len(s) - Len(sub)) : SubSeq(s, k + 1, k + Len(sub)) = sub

\* a test for "premessa" that does not lowercase the title
IsPremessaCaseSensitive(t) ==
    Includes(t, <<"p", "r", "e", "m", "e", "s", "s", "a">>)

\* titleLower.includes("premessa")
IsPremessa(t) ==
    Includes(ToLowerCase(t), <<"p", "r", "e", "m", "e", "s", "s", "a">>)

\* title.match(/^Capitolo\s+\d+/i)
IsChapterStart(t) ==
    /\ Len(t) >= 10
    /\ SubSeq(ToLowerCase(t), 1, 8) = <<"c", "a", "p", "i", "t", "o", "l", "o">>
    /\ \E k \in 9..(Len(t) - 1) :
        /\ \A j \in 9..k : t[j] \in Whitespace
        /\ t[k + 1] \in DigitChars

\* a chapter closed with the endPage it was opened with
CloseBeforeKeep(chapter, item) == chapter

\* currentChapter.endPage = item.pageNum - 1
CloseBefore(chapter, item) == [chapter EXCEPT !.endPage = item.pageNum - 1]

\* if (currentChapter) { ...endPage = item.pageNum - 1; chapters.push(...) }
PushCurrent(st, item) ==
    IF st.currentChapter = {} THEN st.chapters
    ELSE Append(st.chapters,
                CloseBefore(CHOOSE c \in st.currentChapter : TRUE, item))

\* a preface that leaves the chapter before it open
CurrentAfterPremessaKept(st) == st.currentChapter

\* currentChapter = null after the standalone preface
CurrentAfterPremessa(st) == {}

\* a preface group that starts on the page before its own
PremessaGroupFromBefore(item) ==
    [chapterNumber |-> 0,
     title |-> item.title,
     startPage |-> item.pageNum - 1,
     endPage |-> item.pageNum,
     pages |-> <<item>>]

\* the standalone group pushed for a preface
PremessaGroup(item) ==
    [chapterNumber |-> 0,
     title |-> item.title,
     startPage |-> item.pageNum,
     endPage |-> item.pageNum,
     pages |-> <<item>>]

\* a chapter number taken from the count of the groups pushed so far
NextChapterNumberByCount(st) == Len(st.chapters) + 1

\* chapterNumber++
NextChapterNumber(st) == st.chapterNumber + 1

\* the body of the for loop for one item of a table of len entries
SegmentStep(st, item, len) ==
    IF IsPremessa(item.title)
    THEN [chapters |-> Append(PushCurrent(st, item), PremessaGroup(item)),
          currentChapter |-> CurrentAfterPremessa(st),
          chapterNumber |-> st.chapterNumber]
    ELSE IF IsChapterStart(item.title)
    THEN [chapters |-> PushCurrent(st, item),
          currentChapter |-> {[chapterNumber |-> NextChapterNumber(st),
                               title |-> item.title,
                               startPage |-> item.pageNum,
                               endPage |-> len,
                               pages |-> <<item>>]},
          chapterNumber |-> NextChapterNumber(st)]
    ELSE IF st.currentChapter # {}
    THEN [st EXCEPT !.currentChapter =
            {[c EXCEPT !.pages = Append(@, item)] : c \in st.currentChapter}]
    ELSE st

\* the state after the first n iterations of the loop
RECURSIVE SegmentLoop(_, _, _)
SegmentLoop(toc, st0, n) ==
    IF n = 0 THEN st0
    ELSE SegmentStep(SegmentLoop(toc, st0, n - 1), toc[n], Len(toc))

\* a call that goes on from what the previous call left
SegmentStartKept(l) ==
    [chapters |-> <<>>,
     currentChapter |-> l.currentChapter,
     chapterNumber |-> l.chapterNumber]

\* the locals of identifyChapters when a call starts
SegmentStart(l) ==
    [chapters |-> <<>>, currentChapter |-> {}, chapterNumber |-> 0]

\* the last chapter is added after the loop
SegmentEnd(toc, st) ==
    IF st.currentChapter = {} THEN st.chapters
    ELSE Append(st.chapters,
                [(CHOOSE c \in st.currentChapter : TRUE)
                    EXCEPT !.endPage = toc[Len(toc)].pageNum])

\* the value identifyChapters returns
identifyChapters(toc, l) ==
    SegmentEnd(toc, SegmentLoop(toc, SegmentStart(l), Len(toc)))

\* chapterNumber and currentChapter when identifyChapters returns
LeftBy(toc, l) ==
    LET st == SegmentLoop(toc, SegmentStart(l), Len(toc))
    IN [chapterNumber |-> st.chapterNumber,
        currentChapter |-> st.currentChapter]

MaxSegToc == 5      \* longest table of contents that is segmented
MaxCalls == 2       \* calls of identifyChapters on one table of contents

Premessa == <<"P", "r", "e", "m", "e", "s", "s", "a">>
Capitolo1 == <<"C", "a", "p", "i", "t", "o", "l", "o", " ", "1">>
Sezione == <<"S", "e", "z", "i", "o", "n", "e">>

\* a preface, chapter starts as the regular expression takes them, a
\* section and a section that speaks of a preface
SegTitles ==
    {Premessa,
     Capitolo1,
     <<"c", "a", "p", "i", "t", "o", "l", "o", " ", " ", "2", " ", "x">>,
     Sezione,
     <<"1", ".", "1", " ", "L", "a", " ", "p", "r", "e", "m", "e", "s", "s", "a">>}

\* a table of contents with the given titles: pageNum is 1..n in order
TocOfTitles(titles) ==
    [k \in DOMAIN titles |->
        [docbookId |-> <<"_">> \o NumToString(k),
         title |-> titles[k],
         pageNum |-> k]]

SegTocs(n) == {TocOfTitles(titles) : titles \in [1..n -> SegTitles]}

\* one call identifyChapters(metadata.tableOfContents)
Identify ==
    /\ Len(results) < MaxCalls
    /\ metadata.kind = "json"
    /\ results' = Append(results,
                    identifyChapters(metadata.value.tableOfContents, left))
    /\ left' = LeftBy(metadata.value.tableOfContents, left)
    /\ UNCHANGED <<title, sanitized, mpc, chapters, ci, processed, mergeLog>>
    /\ UNCHANGED <<faults, cycle>>
    /\ UNCHANGED <<now, lastOp, reports>>
    /\ UNCHANGED dirVars
    /\ UNCHANGED coordVars
    /\ UNCHANGED retryVars
    /\ UNCHANGED ctx

InitSegment ==
    /\ metadata \in {JsonFile(MakeMetadata("undefined", t, 0)) :
                        t \in UNION {SegTocs(n) : n \in 0..MaxSegToc}}
    /\ pages = NoFiles
    /\ output = AbsentFile
    /\ now = 0
    /\ lastOp = "none"
    /\ reports = <<>>
    /\ tocItems = <<>>
    /\ pc = "idle"
    /\ i = 0
    /\ first = "none"
    /\ prom = <<>>
    /\ attempts = <<>>
    /\ batchLog = <<>>
    /\ faults = 0
    /\ ctx = {}
    /\ retry = "idle"
    /\ failedDocbookIds = <<>>
    /\ browser = FALSE
    /\ exit = "none"
    /\ cycle = <<>>
    /\ MergeIdle

NextSegment == Identify

SpecSegment == InitSegment /\ [][NextSegment]_vars

----------------------------------------------------------------------------
(* mergeChapterPDFs and mergeChapterPages *)

MaxMergeToc == 3    \* longest table of contents that is merged

\* a merged document is the sequence of the artifacts whose pages were
\* copied into it, each named by its file name

\* a document that takes the pages of the next artifact in front
AddPageFirst(doc, name) == <<name>> \o doc

\* copiedPages.forEach((page) => mergedPdf.addPage(page))
AddPage(doc, name) == Append(doc, name)

\* the document after the first n pages of the chapter; bad holds the
\* positions whose artifact PDFDocument.load or copyPages rejects
RECURSIVE MergeLoop(_, _, _, _)
MergeLoop(chapter, dir, bad, n) ==
    IF n = 0 THEN <<>>
    ELSE LET doc == MergeLoop(chapter, dir, bad, n - 1)
             fileName == FileName(chapter.pages[n])
         IN IF ~ExistsSync(dir, fileName) THEN doc
            ELSE IF n \in bad THEN doc
            ELSE AddPage(doc, fileName)

\* "premessa.pdf" or chapter_NN_<sanitized title>.pdf
OutputFileName(chapter) ==
    IF chapter.chapterNumber = 0
    THEN <<"p", "r", "e", "m", "e", "s", "s", "a", ".", "p", "d", "f">>
    ELSE <<"c", "h", "a", "p", "t", "e", "r", "_">>
            \o PadStart(NumToString(chapter.chapterNumber), 2, "0")
            \o <<"_">>
            \o sanitizeFileName(chapter.title)
            \o <<".", "p", "d", "f">>

\* fs.writeFileSync(outputPath, pdfBytes)
WriteMerged(dir, name, doc) ==
    [n \in (DOMAIN dir) \cup {name} |-> IF n = name THEN doc ELSE dir[n]]

\* positions of the pages of a chapter whose artifact is in the directory
PresentPositions(chapter, dir) ==
    {n \in DOMAIN chapter.pages : ExistsSync(dir, FileName(chapter.pages[n]))}

\* a catch block that throws the error of a chapter again
AfterMergeChapterPagesRethrow(saved) == IF saved THEN "loop" ELSE "threw"

\* mergeChapterPages returns whether its try block completed or its catch
\* block logged the error
AfterMergeChapterPages(saved) == "loop"

\* metadata.json is missing, or JSON.parse rejects it: mergeChapterPDFs
\* rejects and the command exits with 1
MergeThrows ==
    /\ mpc = "idle"
    /\ metadata.kind # "json"
    /\ mpc' = "threw"
    /\ exit' = "nonzero"
    /\ UNCHANGED <<title, sanitized, results, left, chapters, ci, processed, mergeLog>>
    /\ UNCHANGED <<faults, cycle>>
    /\ UNCHANGED <<now, lastOp, reports>>
    /\ UNCHANGED dirVars
    /\ UNCHANGED coordVars
    /\ UNCHANGED <<retry, failedDocbookIds, browser>>
    /\ UNCHANGED ctx

\* the chapters are identified and the processed directory is there
MergeStart ==
    /\ mpc = "idle"
    /\ metadata.kind = "json"
    /\ chapters' = identifyChapters(metadata.value.tableOfContents, left)
    /\ left' = LeftBy(metadata.value.tableOfContents, left)
    /\ ci' = 0
    /\ mpc' = "loop"
    /\ UNCHANGED <<title, sanitized, results, processed, mergeLog>>
    /\ UNCHANGED <<faults, cycle>>
    /\ UNCHANGED <<now, lastOp, reports>>
    /\ UNCHANGED dirVars
    /\ UNCHANGED coordVars
    /\ UNCHANGED retryVars
    /\ UNCHANGED ctx

\* await mergeChapterPages(bookDir, processedDir, chapter) for the next
\* chapter: artifacts that are there may fail to load, and save or
\* writeFileSync may fail
MergeChapter ==
    /\ mpc = "loop"
    /\ ci < Len(chapters)
    /\ LET chapter == chapters[ci + 1]
       IN \E bad \in SUBSET PresentPositions(chapter, pages), saved \in BOOLEAN :
            LET cost == Cardinality(bad) + (IF saved THEN 0 ELSE 1)
                doc == MergeLoop(chapter, pages, bad, Len(chapter.pages))
            IN /\ faults + cost <= MaxFaults
               /\ faults' = faults + cost
               /\ processed' =
                    IF saved
                    THEN WriteMerged(processed, OutputFileName(chapter), doc)
                    ELSE processed
               /\ mergeLog' = Append(mergeLog,
                                [chapter |-> chapter, bad |-> bad, saved |-> saved])
               /\ mpc' = AfterMergeChapterPages(saved)
    /\ ci' = ci + 1
    /\ UNCHANGED <<title, sanitized, results, left, chapters>>
    /\ UNCHANGED cycle
    /\ UNCHANGED <<now, lastOp, reports>>
    /\ UNCHANGED dirVars
    /\ UNCHANGED coordVars
    /\ UNCHANGED retryVars
    /\ UNCHANGED ctx

\* the loop is over: mergeChapterPDFs resolves
MergeEnd ==
    /\ mpc = "loop"
    /\ ci = Len(chapters)
    /\ mpc' = "returned"
    /\ exit' = "zero"
    /\ UNCHANGED <<title, sanitized, results, left, chapters, ci, processed, mergeLog>>
    /\ UNCHANGED <<faults, cycle>>
    /\ UNCHANGED <<now, lastOp, reports>>
    /\ UNCHANGED dirVars
    /\ UNCHANGED coordVars
    /\ UNCHANGED <<retry, failedDocbookIds, browser>>
    /\ UNCHANGED ctx

MergeTitles == {Premessa, Capitolo1, Sezione}

MergeTocs(n) == {TocOfTitles(titles) : titles \in [1..n -> MergeTitles]}

\* any subset of the page artifacts of a table of contents
MergeDirs(toc) ==
    {[n \in S |-> File(1001, TRUE)] :
        S \in SUBSET {FileName(toc[k]) : k \in DOMAIN toc}}

InitMerge ==
    /\ \/ /\ metadata \in {AbsentFile, CorruptFile}
          /\ pages = NoFiles
       \/ \E toc \in UNION {MergeTocs(n) : n \in 0..MaxMergeToc} :
            /\ metadata = JsonFile(MakeMetadata("undefined", toc, 0))
            /\ pages \in MergeDirs(toc)
    /\ output = AbsentFile
    /\ now = 0
    /\ lastOp = "none"
    /\ reports = <<>>
    /\ tocItems = <<>>
    /\ pc = "idle"
    /\ i = 0
    /\ first = "none"
    /\ prom = <<>>
    /\ attempts = <<>>
    /\ batchLog = <<>>
    /\ faults = 0
    /\ ctx = {}
    /\ retry = "idle"
    /\ failedDocbookIds = <<>>
    /\ browser = FALSE
    /\ exit = "none"
    /\ cycle = <<>>
    /\ MergeIdle

NextMerge ==
    \/ MergeThrows
    \/ MergeStart
    \/ MergeChapter
    \/ MergeEnd

SpecMerge == InitMerge /\ [][NextMerge]_vars

----------------------------------------------------------------------------
(* The download command: downloadPagesAsPDF on the extracted table of
   contents *)

MaxBookPages == 3   \* most elements with data-docbookid on the reader page

\* the data-docbookid attributes of n elements
BookIds(n) == [k \in 1..n |-> <<"_">> \o NumToString(k)]

\* the text of the k-th element
BookTitle(k) == IF k = 1 THEN Capitolo1 ELSE Sezione

\* a table of contents numbered by the zero-based index
ExtractTocFromZero(ids) ==
    [k \in DOMAIN ids |->
        [docbookId |-> ids[k], title |-> BookTitle(k), pageNum |-> k - 1]]

\* elements.map((element, index) => ({ docbookId, title, pageNum: index + 1 }))
ExtractToc(ids) ==
    [k \in DOMAIN ids |->
        [docbookId |-> ids[k], title |-> BookTitle(k), pageNum |-> k]]

\* downloadPagesAsPDF throws before metadata.json is written: the URL does
\* not show the book number, or mkdirSync or writeFileSync throws
BeginThrows ==
    /\ pc = "begin"
    /\ faults < MaxFaults
    /\ faults' = faults + 1
    /\ pc' = "threw"
    /\ UNCHANGED <<tocItems, i, first, prom, attempts, batchLog>>
    /\ UNCHANGED dirVars
    /\ UNCHANGED checkVars
    /\ UNCHANGED retryVars
    /\ UNCHANGED mergeVars
    /\ UNCHANGED ctx

\* fs.writeFileSync(metadataPath, JSON.stringify(metadata, null, 2))
WriteManifest ==
    /\ pc = "begin"
    /\ metadata' = JsonFile(MakeMetadata("undefined", tocItems, now))
    /\ pc' = "start"
    /\ UNCHANGED <<tocItems, i, first, prom, attempts, batchLog, faults>>
    /\ UNCHANGED <<pages, output>>
    /\ UNCHANGED checkVars
    /\ UNCHANGED retryVars
    /\ UNCHANGED mergeVars
    /\ UNCHANGED ctx

\* the download is over: await mergeChapterPDFs(bookDir) starts
AutoMergeStart ==
    /\ pc = "returned"
    /\ MergeStart

\* mergeChapterPDFs resolves and downloadPagesAsPDF returns
AutoMergeEnd ==
    /\ mpc = "loop"
    /\ ci = Len(chapters)
    /\ mpc' = "returned"
    /\ UNCHANGED <<title, sanitized, results, left, chapters, ci, processed, mergeLog>>
    /\ UNCHANGED <<faults, cycle>>
    /\ UNCHANGED <<now, lastOp, reports>>
    /\ UNCHANGED dirVars
    /\ UNCHANGED coordVars
    /\ UNCHANGED retryVars
    /\ UNCHANGED ctx

InitBook ==
    /\ tocItems \in {ExtractToc(BookIds(n)) : n \in 1..MaxBookPages}
    /\ pc = "begin"
    /\ i = 0
    /\ first = "none"
    /\ prom = [r \in 1..(Len(tocItems) - 1) |-> "none"]
    /\ attempts = [k \in 1..Len(tocItems) |-> 0]
    /\ batchLog = <<>>
    /\ faults = 0
    /\ ctx = {0}
    /\ pages = NoFiles
    /\ metadata = AbsentFile
    /\ output = AbsentFile
    /\ now = 0
    /\ lastOp = "none"
    /\ reports = <<>>
    /\ retry = "idle"
    /\ failedDocbookIds = <<>>
    /\ browser = FALSE
    /\ exit = "none"
    /\ cycle = <<>>
    /\ MergeIdle

NextBook ==
    \/ BeginThrows
    \/ WriteManifest
    \/ StartFirst
    \/ FirstSettles
    \/ BatchStart
    \/ \E r \in DOMAIN prom : ItemSettles(r)
    \/ AwaitBatch
    \/ DelayDone
    \/ LoopExit
    \/ AutoMergeStart
    \/ MergeChapter
    \/ AutoMergeEnd

SpecBook == InitBook /\ [][NextBook]_vars

----------------------------------------------------------------------------
(* Properties of the download coordinator, checked under SpecCoord *)

Settled(r) == prom[r] \in {"fulfilled", "rejected"}

Finished == pc \in {"returned", "threw"}

\* the number of captures that have been started and have not settled
InFlight ==
    Cardinality({r \in DOMAIN prom : prom[r] = "pending"})
        + (IF first = "pending" THEN 1 ELSE 0)

\* the batch (0-based) that position r of tocItems.slice(1) belongs to
BatchIndex(r) == (r - 1) \div 10

\* C1 as stated: when one invocation of the coordinator has ended, every
\* descriptor of the input has been attempted exactly once, whatever the
\* outcomes of the captures.
C1_EveryDescriptorOnce ==
    Finished => \A k \in DOMAIN attempts : attempts[k] = 1

\* C1 amended: no descriptor is ever attempted twice; a run that returns has
\* attempted every descriptor exactly once; a run that ends with the first
\* capture's error has attempted the first descriptor once and no other.
C1_AttemptedOnce ==
    /\ \A k \in DOMAIN attempts : attempts[k] <= 1
    /\ pc = "returned" => \A k \in DOMAIN attempts : attempts[k] = 1
    /\ pc = "threw" =>
        /\ first = "failed"
        /\ attempts[1] = 1
        /\ \A k \in DOMAIN attempts : k > 1 => attempts[k] = 0

C1_Witness ==
    /\ pc = "returned"
    /\ Len(tocItems) > batchSize + 1
    /\ faults > 0
    /\ \A k \in DOMAIN attempts : attempts[k] = 1

\* C2: in downloadPagesInBatches the failure of an item (its capture, opening
\* its page or closing it) does not propagate: the run never ends with an
\* error once the first page succeeded, the siblings of a failed item have
\* been launched with it, and a run that returns has launched and settled
\* every item of every batch.
C2_FailureIsolated ==
    first = "ok" =>
        /\ pc # "threw"
        /\ \A r \in DOMAIN prom :
            prom[r] = "rejected" =>
                \A q \in DOMAIN prom :
                    BatchIndex(q) = BatchIndex(r) => attempts[q + 1] = 1
        /\ pc = "returned" =>
            \A r \in DOMAIN prom : attempts[r + 1] = 1 /\ Settled(r)

C2_Witness ==
    /\ pc = "returned"
    /\ \E r \in DOMAIN prom :
        /\ prom[r] = "rejected"
        /\ \E q \in DOMAIN prom :
            BatchIndex(q) > BatchIndex(r) /\ prom[q] = "fulfilled"

\* C3: a concurrent capture is started only after the capture of the first
\* descriptor has settled with success; when the first capture fails the run
\* ends with that error and no concurrent capture has been started.
C3_FirstPageFirst ==
    /\ (\E r \in DOMAIN prom : prom[r] # "none") => first = "ok"
    /\ first = "failed" =>
        /\ pc = "threw"
        /\ \A r \in DOMAIN prom : prom[r] = "none" /\ attempts[r + 1] = 0

C3_Witness ==
    /\ first = "failed"
    /\ pc = "threw"
    /\ Len(tocItems) > 1

\* C4: batches are strictly sequential: when a capture of a batch has been
\* started, every capture of every earlier batch has settled.
C4_BatchesSequential ==
    \A r, q \in DOMAIN prom :
        (BatchIndex(r) < BatchIndex(q) /\ prom[q] # "none") => Settled(r)

C4_Witness ==
    \E r, q \in DOMAIN prom :
        /\ BatchIndex(r) < BatchIndex(q)
        /\ prom[q] = "pending"
        /\ prom[r] = "rejected"

\* C5: at any moment of a coordinator run at most 10 captures have been
\* started and have not settled.
C5_AtMostTenInFlight == InFlight <= 10

C5_Witness == InFlight = 10

\* C6 as stated: for 12 descriptors the coordinator issues 1 sequential
\* capture, then a batch of 9, then a batch of 2.
C6_NineThenTwo ==
    (Len(tocItems) = 12 /\ pc = "returned") =>
        (attempts[1] = 1 /\ batchLog = <<9, 2>>)

\* C6 amended: for 12 descriptors the coordinator issues 1 sequential
\* capture, then a batch of 10, then a batch of 1.
C6_TenThenOne ==
    Len(tocItems) = 12 =>
        /\ batchLog # <<>> => (attempts[1] = 1 /\ first = "ok")
        /\ batchLog \in {<<>>, <<10>>, <<10, 1>>}
        /\ pc = "returned" => batchLog = <<10, 1>>

C6_Witness ==
    /\ Len(tocItems) = 12
    /\ pc = "returned"
    /\ batchLog = <<10, 1>>

----------------------------------------------------------------------------
(* Properties of the status check, checked under SpecCheck *)

LastReport == reports[Len(reports)]

\* a report with its timestamp blanked
ModuloTimestamp(r) == [r EXCEPT !.checkedAt = 0]

\* C7: every report checkDownloadStatus produces, for every manifest and
\* every state of the page files, has successCount + failedCount equal to
\* totalPages.
C7_CountsSumToTotal ==
    /\ \A n \in DOMAIN reports :
        reports[n].successCount + reports[n].failedCount = reports[n].totalPages
    /\ output.kind = "json" =>
        output.value.successCount + output.value.failedCount
            = output.value.totalPages

C7_Witness ==
    /\ lastOp = "check"
    /\ LastReport.successCount > 0
    /\ LastReport.failedCount > 0
    /\ \E k \in DOMAIN LastReport.downloadStatuses :
        /\ LastReport.downloadStatuses[k].status = "failed"
        /\ LastReport.downloadStatuses[k].fileExists

C9_Idempotent ==
    Len(reports) = 2 => ModuloTimestamp(reports[1]) = ModuloTimestamp(reports[2])

C9_Witness ==
    /\ Len(reports) = 2
    /\ reports[1].checkedAt # reports[2].checkedAt
    /\ reports[2].failedCount > 0
    /\ reports[2].successCount > 0

\* C10: a run of checkDownloadStatus leaves the manifest and every page
\* artifact as they were (none created, deleted or modified); the one file
\* it writes is output.json, whose whole content becomes the report it
\* returns, and a run that throws writes nothing.
C10_CheckWritesOnlyReport ==
    [][/\ CheckOk =>
            /\ metadata' = metadata
            /\ pages' = pages
            /\ output' = JsonFile(reports'[Len(reports')])
       /\ CheckThrows =>
            /\ metadata' = metadata
            /\ pages' = pages
            /\ output' = output]_vars

C10_Witness ==
    /\ Len(reports) = 2
    /\ reports[1].checkedAt # reports[2].checkedAt
    /\ output = JsonFile(reports[2])
    /\ pages # NoFiles
    /\ \E k \in DOMAIN reports[2].downloadStatuses :
        ~reports[2].downloadStatuses[k].fileExists

\* the positions of the manifest whose entry the report classifies as failed
FailedPositions(r) ==
    {k \in DOMAIN r.downloadStatuses : r.downloadStatuses[k].status = "failed"}

\* C11: in every report, downloadStatuses has one entry per manifest
\* descriptor in manifest order, failedItems lists exactly the descriptors
\* whose status is failed, in manifest order, and failedCount is its length.
C11_FailedItemsInManifestOrder ==
    \A n \in DOMAIN reports :
        LET r == reports[n]
            toc == metadata.value.tableOfContents
        IN /\ Len(r.downloadStatuses) = Len(toc)
           /\ \A k \in DOMAIN toc :
                /\ r.downloadStatuses[k].docbookId = toc[k].docbookId
                /\ r.downloadStatuses[k].pageNum = toc[k].pageNum
                /\ r.downloadStatuses[k].title = toc[k].title
           /\ r.failedCount = Len(r.failedItems)
           /\ Len(r.failedItems) = Cardinality(FailedPositions(r))
           /\ \E f \in [DOMAIN r.failedItems -> FailedPositions(r)] :
                /\ \A a, b \in DOMAIN f : a < b => f[a] < f[b]
                /\ \A a \in DOMAIN f : r.failedItems[a] = toc[f[a]]

\* a report with two failed pages of different ids and a successful one or
\* none
C11_Witness ==
    /\ lastOp = "check"
    /\ Len(LastReport.failedItems) >= 2
    /\ LastReport.failedItems[1] # LastReport.failedItems[2]
    /\ LastReport.failedItems[1].pageNum < LastReport.failedItems[2].pageNum
    /\ output = JsonFile(LastReport)

\* C12: a check that finds the manifest absent or unparseable fails,
\* returns no report and leaves output.json as it was, present or not.
C12_NoManifestNoReport ==
    [][(CheckOk \/ CheckThrows) /\ metadata.kind # "json"
        => /\ lastOp' = "checkThrew"
           /\ reports' = reports
           /\ output' = output]_vars

\* a check has failed on a corrupt manifest beside an earlier report
C12_Witness ==
    /\ lastOp = "checkThrew"
    /\ metadata = CorruptFile
    /\ output.kind = "json"
    /\ reports = <<>>

----------------------------------------------------------------------------
(* Properties of the commands on a book directory, checked under SpecDir *)

\* page_<pageNum padded to 3 digits>_<id with non-alphanumerics replaced by
\* underscore>.pdf
ArtifactName(pageNum, id) ==
    <<"p", "a", "g", "e", "_">>
        \o (IF pageNum < 10 THEN <<"0", "0">>
            ELSE IF pageNum < 100 THEN <<"0">> ELSE <<>>)
        \o NumToString(pageNum)
        \o <<"_">>
        \o [k \in DOMAIN id |-> IF id[k] \in AlphaNum THEN id[k] ELSE "_"]
        \o <<".", "p", "d", "f">>

NameOf(d) == ArtifactName(d.pageNum, d.docbookId)

ManifestEntries ==
    IF metadata.kind = "json"
    THEN {metadata.value.tableOfContents[k] :
            k \in DOMAIN metadata.value.tableOfContents}
    ELSE {}

\* C13: for every descriptor the name capture writes, the name the check
\* looks up and the name cleanup keeps when it works from the manifest are
\* the one string page_<padded pageNum>_<sanitized id>.pdf: the three name
\* operators agree with it, every status of a report carries it, a capture
\* creates no file under another name, and a cleanup working from the
\* manifest keeps every file of that name.
C13_OneNamingScheme ==
    /\ [](/\ \A d \in ManifestEntries :
                /\ FileName(d) = NameOf(d)
                /\ CheckFileName(d) = NameOf(d)
                /\ CleanupFileName(d) = NameOf(d)
                /\ NameOf(d) \in GetExpectedFiles(AbsentFile, metadata)
          /\ output.kind = "json" =>
                \A k \in DOMAIN output.value.downloadStatuses :
                    output.value.downloadStatuses[k].fileName
                        = NameOf(output.value.downloadStatuses[k]))
    /\ [][/\ (FirstSettles \/ \E r \in DOMAIN prom : ItemSettles(r)) =>
                (DOMAIN pages') \ (DOMAIN pages)
                    \subseteq {NameOf(tocItems[k]) : k \in DOMAIN tocItems}
          /\ ((\E live \in BOOLEAN : Cleanup(live)) /\ output.kind = "absent") =>
                \A d \in ManifestEntries :
                    NameOf(d) \in DOMAIN pages => NameOf(d) \in DOMAIN pages']_vars

\* a live cleanup working from the manifest has removed the stray file and
\* kept the artifact of a descriptor whose id sanitizing changes
C13_Witness ==
    /\ lastOp = "cleanupLive"
    /\ output.kind = "absent"
    /\ NotesTxt \notin DOMAIN pages
    /\ \E d \in ManifestEntries :
        /\ Sanitize(d.docbookId) # d.docbookId
        /\ NameOf(d) \in DOMAIN pages

\* a retry command starts
RetryStarts == RetryThrows \/ RetryNothingToDo \/ RetryBegin

\* C14: a retry that finds a report with an empty failedItems list ends at
\* once with exit status zero: no login, no capture, no file of the
\* directory created, changed or deleted.
C14_NothingFailedNothingDone ==
    [][(RetryStarts /\ output.kind = "json"
            /\ Len(output.value.failedItems) = 0)
        => /\ exit' = "zero"
           /\ retry' = "idle"
           /\ browser' = browser
           /\ UNCHANGED dirVars
           /\ UNCHANGED coordVars]_vars

\* a retry has ended at once on a report of a book whose pages all pass
C14_Witness ==
    /\ lastOp = "retryNothing"
    /\ exit = "zero"
    /\ output.kind = "json"
    /\ output.value.totalPages >= 1
    /\ output.value.failedItems = <<>>
    /\ output.value.successCount = output.value.totalPages

\* the ids of a sequence of descriptors
IdsOf(items) == [k \in DOMAIN items |-> items[k].docbookId]

\* the ids of the pages a report classifies as success
SuccessIds(r) ==
    {r.downloadStatuses[k].docbookId :
        k \in {j \in DOMAIN r.downloadStatuses :
                r.downloadStatuses[j].status = "success"}}

\* no two entries of the report have the same id
UniqueIds(r) ==
    \A a, b \in DOMAIN r.downloadStatuses :
        r.downloadStatuses[a].docbookId = r.downloadStatuses[b].docbookId
            => a = b

C16_RetryKeepsManifest ==
    [][(RetryStarts \/ retry # "idle") => metadata' = metadata]_vars

\* a retry of two pages has ended after one of its batch tasks rejected
C16_Witness ==
    /\ lastOp = "retried"
    /\ metadata.kind = "json"
    /\ Len(tocItems) = 2
    /\ prom[1] = "rejected"

\* the success rule applied to the file of the given name as it is now
SatisfiesSuccessRule(dir, name) ==
    /\ name \in DOMAIN dir
    /\ ~dir[name].statOk \/ dir[name].size > 1000

\* the descriptors whose capture the step starts
Launched ==
    IF pc = "start" THEN {tocItems[1]}
    ELSE {Rest[r] : r \in BatchPositions(i)}

\* C17: at the moment a retry starts a capture for a descriptor, the
\* descriptor's artifact is missing or at most 1000 bytes, whatever checks
\* and retries ran before (two retries with no check in between included).
\* Stated for books whose pages have pairwise distinct ids.
C17_NeverRecapturesGoodPage ==
    [][((StartFirst \/ BatchStart) /\ retry = "download"
            /\ UniqueIds(output.value))
        => \A d \in Launched : ~SatisfiesSuccessRule(pages, NameOf(d))]_vars

\* C18: whenever the report or the manifest is absent or unreadable, a
\* retry does not terminate with an error before the capture step: it goes
\* on (with placeholder titles where it must) or finds nothing to retry.
C18_FallbackNeverFails ==
    [][(RetryStarts /\ (output.kind # "json" \/ metadata.kind # "json"))
        => /\ exit' # "nonzero"
           /\ lastOp' # "retryThrew"]_vars

\* C19: a retry does not reconcile again after capturing: no step of a retry
\* that finds output.json in the directory changes it, so a report that is
\* there when the retry starts is the same when the retry ends, whatever the
\* captures did.
C19_RetryKeepsReport ==
    [][((RetryStarts \/ retry # "idle") /\ output.kind # "absent")
        => output' = output]_vars

\* a retry that started from a report (the manifest is gone, so the retry
\* did not write it) has ended, and the report still lists as failed a page
\* whose artifact now passes
C19_Witness ==
    /\ lastOp = "retried"
    /\ metadata.kind = "absent"
    /\ output.kind = "json"
    /\ \E k \in DOMAIN output.value.failedItems :
        SatisfiesSuccessRule(pages, NameOf(output.value.failedItems[k]))

\* the ways a command ends without having been able to do anything: the
\* manifest or the report cannot be read, the login fails
NoProgressPossible ==
    lastOp \in {"checkThrew", "retryThrew", "retryLoginFailed", "cleanupThrew"}

\* C20 as stated: the check and retry commands exit non-zero only when no
\* useful progress could be made, never merely because page captures failed
\* or pages are classified failed.
C20_NonZeroOnlyWithoutProgress ==
    exit = "nonzero" => NoProgressPossible

\* C20, amended: the check command exits non-zero only when the manifest is
\* absent or unreadable, never because pages are classified failed; the
\* retry command exits non-zero only when the report or the manifest it
\* needs cannot be read, when the login fails, or when the first, sequential
\* capture of the run fails (no other page has then been attempted); it
\* exits zero when that capture succeeds, whatever the captures of the
\* batches did.
C20_NonZeroExits ==
    /\ exit = "nonzero" =>
        \/ NoProgressPossible
        \/ /\ lastOp = "retryFailed"
           /\ first = "failed"
           /\ batchLog = <<>>
    /\ lastOp = "check" => exit = "zero"
    /\ (retry = "idle" /\ lastOp \in {"retried", "retryFailed"}
            /\ first = "ok") => exit = "zero"

\* a retry has ended with exit status zero although a task of its batch
\* rejected, and the report lists failed pages
C20_Witness ==
    /\ lastOp = "retried"
    /\ exit = "zero"
    /\ \E r \in DOMAIN prom : prom[r] = "rejected"
    /\ output.kind = "json"
    /\ output.value.failedCount > 0

\* the positions a report classifies as success
SuccessPositions(r) ==
    {k \in DOMAIN r.downloadStatuses : r.downloadStatuses[k].status = "success"}

NamedArtifacts ==
    IF output.kind = "json"
    THEN {output.value.downloadStatuses[k].fileName :
            k \in DOMAIN output.value.downloadStatuses}
    ELSE {NameOf(d) : d \in ManifestEntries}

\* C29: a cleanup deletes a file only in live mode and only if its name is
\* not in the expected-file set; a dry run deletes nothing; in no mode are
\* metadata.json, output.json, an artifact the report names or, without a
\* report, an artifact derived from the manifest deleted.
C29_CleanupDeletesOnlyStrays ==
    [][\A live \in BOOLEAN :
        (Cleanup(live) \/ CleanupThrows(live)) =>
            /\ metadata' = metadata
            /\ output' = output
            /\ ~live => pages' = pages
            /\ \A n \in (DOMAIN pages) \ (DOMAIN pages') :
                /\ live
                /\ n \notin GetExpectedFiles(output, metadata)
                /\ n \notin NamedArtifacts]_vars

----------------------------------------------------------------------------
(* Properties of sanitizeFileName, checked under SpecSanitize *)

\* the characters a-z, 0-9, underscore, dot and hyphen
FileNameChars ==
    {LowerCase[k] : k \in DOMAIN LowerCase} \cup DigitChars \cup {"_", ".", "-"}

\* the value sanitizeFileName returned
Sanitized == CHOOSE s \in sanitized : TRUE

\* C28 as stated: for every title sanitizeFileName returns at most 80
\* characters, all of them in [a-z0-9_.-], and the result neither starts nor
\* ends with an underscore.
C28_PortableName ==
    sanitized # {} =>
        /\ Len(Sanitized) <= 80
        /\ \A k \in DOMAIN Sanitized : Sanitized[k] \in FileNameChars
        /\ Sanitized # <<>> =>
            /\ Sanitized[1] # "_"
            /\ Sanitized[Len(Sanitized)] # "_"

\* C28, amended: for every title sanitizeFileName returns at most 80
\* characters, all of them in [a-z0-9_.-]; the result never starts with an
\* underscore, and it ends with one only when it was cut at 80 characters.
C28_PortableNameUnlessCut ==
    sanitized # {} =>
        /\ Len(Sanitized) <= 80
        /\ \A k \in DOMAIN Sanitized : Sanitized[k] \in FileNameChars
        /\ Sanitized # <<>> =>
            /\ Sanitized[1] # "_"
            /\ Sanitized[Len(Sanitized)] = "_" => Len(Sanitized) = 80

\* a title with a capital, an accent, surrounding blanks and a character
\* that is removed has been sanitized to a shorter, non-empty name
C28_Witness ==
    /\ sanitized # {}
    /\ Sanitized # <<>>
    /\ Len(Sanitized) < Len(title)
    /\ title[1] \in Whitespace
    /\ \E k \in DOMAIN title : title[k] \in AccentedE
    /\ \E k \in DOMAIN title : title[k] = "B"

----------------------------------------------------------------------------
(* Properties of identifyChapters, checked under SpecSegment *)

\* the table of contents identifyChapters is called on
SegToc == metadata.value.tableOfContents

\* the positions of the table of contents a group holds
PositionsOf(g) == {k \in DOMAIN SegToc : \E j \in DOMAIN g.pages : g.pages[j] = SegToc[k]}

\* C21: for the five pages Premessa, Capitolo 1 and three sections, in this
\* order, identifyChapters returns two groups: number 0 with the preface
\* page alone, then number 1 with the Capitolo page and the three sections.
C21_PrefaceThenChapter ==
    \A n \in DOMAIN results :
        (/\ Len(SegToc) = 5
         /\ SegToc[1].title = Premessa
         /\ SegToc[2].title = Capitolo1
         /\ \A k \in 3..5 : SegToc[k].title = Sezione)
        => results[n] =
            <<[chapterNumber |-> 0, title |-> Premessa,
               startPage |-> 1, endPage |-> 1, pages |-> <<SegToc[1]>>],
              [chapterNumber |-> 1, title |-> Capitolo1,
               startPage |-> 2, endPage |-> 5,
               pages |-> <<SegToc[2], SegToc[3], SegToc[4], SegToc[5]>>]>>

\* identifyChapters has returned for Premessa, Capitolo 1, three sections
C21_Witness ==
    /\ Len(results) >= 1
    /\ Len(SegToc) = 5
    /\ SegToc[1].title = Premessa
    /\ SegToc[2].title = Capitolo1
    /\ \A k \in 3..5 : SegToc[k].title = Sezione
    /\ Len(results[1]) = 2

\* C22: no two groups identifyChapters returns have intersecting page
\* ranges [startPage, endPage], and no descriptor is in the pages of two
\* groups.
C22_GroupsDisjoint ==
    \A n \in DOMAIN results :
        \A a, b \in DOMAIN results[n] :
            a # b =>
                /\ \/ results[n][a].endPage < results[n][b].startPage
                   \/ results[n][b].endPage < results[n][a].startPage
                /\ PositionsOf(results[n][a]) \cap PositionsOf(results[n][b]) = {}

\* a chapter with a section, a preface and a second chapter have come out
C22_Witness ==
    /\ Len(results) >= 1
    /\ Len(results[1]) >= 3
    /\ \E a \in DOMAIN results[1] : Len(results[1][a].pages) >= 2
    /\ \E a \in DOMAIN results[1] : results[1][a].chapterNumber = 0
    /\ \E a \in DOMAIN results[1] : results[1][a].chapterNumber = 2

\* C23: the pages of every group identifyChapters returns are consecutive by
\* pageNum, the first at startPage and the last at endPage.
C23_GroupsContiguous ==
    \A n \in DOMAIN results :
        \A a \in DOMAIN results[n] :
            LET g == results[n][a]
            IN /\ g.pages # <<>>
               /\ g.pages[1].pageNum = g.startPage
               /\ g.pages[Len(g.pages)].pageNum = g.endPage
               /\ g.startPage <= g.endPage
               /\ \A k \in 1..(Len(g.pages) - 1) :
                    g.pages[k + 1].pageNum = g.pages[k].pageNum + 1

\* a chapter of two pages that a later chapter start closed before the end
\* of the table
C23_Witness ==
    /\ Len(results) >= 1
    /\ \E a \in DOMAIN results[1] :
        /\ results[1][a].chapterNumber = 1
        /\ Len(results[1][a].pages) = 2
        /\ results[1][a].endPage < Len(SegToc) - 1

\* the chapter-start markers of the table of contents
IsMarker(t) == IsChapterStart(t) /\ ~IsPremessa(t)

\* the number of groups that hold the descriptor at position k
GroupsHolding(groups, k) ==
    Cardinality({a \in DOMAIN groups : k \in PositionsOf(groups[a])})

\* C24: identifyChapters drops only leading content: every descriptor that
\* follows a chapter-start marker, and the marker itself, is in exactly one
\* group.
C24_OnlyLeadingContentDropped ==
    \A n \in DOMAIN results :
        \A k \in DOMAIN SegToc :
            (\E j \in 1..k : IsMarker(SegToc[j].title))
                => GroupsHolding(results[n], k) = 1

\* C25: two calls of identifyChapters on the same table of contents return
\* identical sequences of groups.
C25_Deterministic ==
    \A m, n \in DOMAIN results : results[m] = results[n]

\* a second call has returned a chapter left open at the end of the table
\* and a numbered chapter before it
C25_Witness ==
    /\ Len(results) = 2
    /\ left.currentChapter # {}
    /\ left.chapterNumber = 2
    /\ Len(results[2]) >= 2

----------------------------------------------------------------------------
(* Properties of the chapter merge, checked under SpecMerge *)

\* the names of the artifacts of a chapter that are in the directory, in
\* the order of its pages array
PresentContent(chapter, dir) ==
    LET names == [k \in DOMAIN chapter.pages |-> FileName(chapter.pages[k])]
    IN SelectSeq(names, LAMBDA n : n \in DOMAIN dir)

C27_EveryChapterAttempted ==
    /\ mpc = "threw" => mergeLog = <<>> /\ metadata.kind # "json"
    /\ mpc \in {"loop", "returned"} =>
        /\ ci = Len(mergeLog)
        /\ ci <= Len(chapters)
        /\ \A k \in DOMAIN mergeLog : mergeLog[k].chapter = chapters[k]
        /\ chapters = identifyChapters(metadata.value.tableOfContents, left)
    /\ mpc = "returned" => Len(mergeLog) = Len(chapters)
    /\ (metadata.kind = "json" /\ mpc # "idle") => mpc \in {"loop", "returned"}

\* mergeChapterPDFs has returned after a chapter that could not be saved
\* and a later chapter that was
C27_Witness ==
    /\ mpc = "returned"
    /\ \E k \in 1..(Len(mergeLog) - 1) :
        /\ ~mergeLog[k].saved
        /\ mergeLog[k + 1].saved
        /\ OutputFileName(mergeLog[k + 1].chapter) \in DOMAIN processed
        /\ OutputFileName(mergeLog[k].chapter) \notin DOMAIN processed

----------------------------------------------------------------------------
(* Further properties of identifyChapters, checked under SpecSegment *)

\* the position of the chapter start that is open before position k: the
\* last marker before k with no preface between it and k, or 0
OpenBefore(k) ==
    LET starts == {j \in 1..(k - 1) :
                    /\ IsMarker(SegToc[j].title)
                    /\ \A m \in (j + 1)..(k - 1) :
                        ~IsPremessa(SegToc[m].title) /\ ~IsMarker(SegToc[m].title)}
    IN IF starts = {} THEN 0 ELSE CHOOSE j \in starts : TRUE

\* the non-marker descriptors that follow position k up to the next preface
\* or chapter start
FollowersOf(k) ==
    {j \in (k + 1)..Len(SegToc) :
        \A m \in (k + 1)..j :
            ~IsPremessa(SegToc[m].title) /\ ~IsMarker(SegToc[m].title)}

\* C32: on a preface descriptor identifyChapters closes the open chapter
\* with endPage = pageNum - 1, emits a group with chapterNumber 0 and
\* startPage = endPage = pageNum that holds this descriptor alone, and
\* leaves no chapter open: the descriptors that follow up to the next
\* marker are added to no group.
C32_PrefaceStandsAlone ==
    \A n \in DOMAIN results :
        \A k \in DOMAIN SegToc :
            IsPremessa(SegToc[k].title) =>
                /\ \E a \in DOMAIN results[n] :
                    /\ results[n][a] =
                        [chapterNumber |-> 0,
                         title |-> SegToc[k].title,
                         startPage |-> SegToc[k].pageNum,
                         endPage |-> SegToc[k].pageNum,
                         pages |-> <<SegToc[k]>>]
                    /\ OpenBefore(k) # 0 =>
                        /\ a > 1
                        /\ results[n][a - 1].pages[1] = SegToc[OpenBefore(k)]
                        /\ results[n][a - 1].endPage = SegToc[k].pageNum - 1
                /\ \A j \in FollowersOf(k) : GroupsHolding(results[n], j) = 0

\* a preface has closed a chapter of two pages and a section follows it
C32_Witness ==
    /\ Len(results) >= 1
    /\ \E k \in 3..(Len(SegToc) - 1) :
        /\ IsPremessa(SegToc[k].title)
        /\ OpenBefore(k) = k - 2
        /\ FollowersOf(k) # {}
        /\ \E a \in DOMAIN results[1] :
            /\ results[1][a].chapterNumber = 0
            /\ results[1][a].startPage = k

\* the chapterNumbers of the groups that are not prefaces, in emission order
NumbersOf(groups) ==
    LET all == [a \in DOMAIN groups |-> groups[a].chapterNumber]
    IN SelectSeq(all, LAMBDA c : c >= 1)

\* C33: the groups with chapterNumber >= 1 carry 1, 2, ..., k in emission
\* order whatever number their titles show; a group carries 0 exactly when
\* it is a preface, and a preface consumes no number.
C33_ChaptersNumberedInOrder ==
    \A n \in DOMAIN results :
        /\ NumbersOf(results[n]) = [c \in 1..Len(NumbersOf(results[n])) |-> c]
        /\ \A a \in DOMAIN results[n] :
            /\ results[n][a].chapterNumber >= 0
            /\ results[n][a].chapterNumber = 0 <=> IsPremessa(results[n][a].title)

\* a chapter titled with 2 carries 1, a preface follows it, and the chapter
\* after the preface, titled with 1, carries 2
C33_Witness ==
    /\ Len(results) >= 1
    /\ \E a \in 1..(Len(results[1]) - 2) :
        /\ results[1][a].chapterNumber = 1
        /\ results[1][a].title # Capitolo1
        /\ results[1][a + 1].chapterNumber = 0
        /\ results[1][a + 2].chapterNumber = 2
        /\ results[1][a + 2].title = Capitolo1

----------------------------------------------------------------------------
(* Further properties of the chapter merge, checked under SpecMerge *)

\* C34: no two distinct groups of one run are written to the same output
\* file name, so no merged document overwrites another.
C34_NoOutputOverwritten ==
    \A j, k \in DOMAIN mergeLog :
        (j # k /\ mergeLog[j].saved /\ mergeLog[k].saved)
            => OutputFileName(mergeLog[j].chapter) # OutputFileName(mergeLog[k].chapter)

----------------------------------------------------------------------------
(* Further properties of the commands on a directory, checked under SpecDir *)

\* C37: when the directory holds neither output.json nor metadata.json, a
\* live cleanup aborts and deletes no file.
C37_NoManifestNoDeletion ==
    [][(Cleanup(TRUE) /\ output.kind = "absent" /\ metadata.kind = "absent")
        => pages' = pages]_vars


\* output.json is a report of the check on the manifest as it is now: one
\* status per manifest entry, with its id and pageNum
ReportOfManifest ==
    /\ output.kind = "json"
    /\ metadata.kind = "json"
    /\ Len(output.value.downloadStatuses) = Len(metadata.value.tableOfContents)
    /\ \A k \in DOMAIN metadata.value.tableOfContents :
        /\ output.value.downloadStatuses[k].docbookId
            = metadata.value.tableOfContents[k].docbookId
        /\ output.value.downloadStatuses[k].pageNum
            = metadata.value.tableOfContents[k].pageNum

\* C31: with a report of the check on a manifest with unique ids, every
\* descriptor the retry reconstructs has the id and the pageNum of a
\* manifest descriptor, never the placeholder pageNum 0, so the name its
\* capture writes is the name the next check looks up for that descriptor.
C31_ReconstructedAsInManifest ==
    (retry = "download" /\ ReportOfManifest /\ UniqueIds(output.value)) =>
        \A k \in DOMAIN tocItems :
            /\ tocItems[k].pageNum # 0
            /\ \E d \in ManifestEntries :
                /\ tocItems[k].docbookId = d.docbookId
                /\ tocItems[k].pageNum = d.pageNum
                /\ FileName(tocItems[k]) = CheckFileName(d)

\* a retry has reconstructed the second page of a book alone, and
\* sanitizing changes its id
C31_Witness ==
    /\ retry = "download"
    /\ ReportOfManifest
    /\ UniqueIds(output.value)
    /\ Len(tocItems) = 1
    /\ tocItems[1].pageNum = 2
    /\ Sanitize(tocItems[1].docbookId) # tocItems[1].docbookId

----------------------------------------------------------------------------
(* Properties of the download command, checked under SpecBook *)

\* a capture has been started
CaptureStarted == \E k \in DOMAIN attempts : attempts[k] > 0

\* C35: the manifest downloadPagesAsPDF writes has totalPages equal to the
\* length of its tableOfContents, which is the extracted table with the
\* pageNums 1..totalPages in order, and it is there before the first
\* capture starts.
C35_ManifestCountsPages ==
    /\ metadata.kind = "json" =>
        /\ metadata.value.totalPages = Len(metadata.value.tableOfContents)
        /\ metadata.value.tableOfContents = tocItems
        /\ \A k \in DOMAIN metadata.value.tableOfContents :
            metadata.value.tableOfContents[k].pageNum = k
    /\ CaptureStarted => metadata.kind = "json"

\* the manifest of three pages is written and the first capture has just
\* been started
C35_Witness ==
    /\ pc = "first"
    /\ first = "pending"
    /\ pages = NoFiles
    /\ metadata.kind = "json"
    /\ metadata.value.totalPages = 3

\* C36: when a batch has settled, no rendering page opened inside the
\* captures of its items is left open, whether the items succeeded or
\* failed; stated for the batches in which every newPage() and close() of
\* the tasks themselves resolved.
C36_NoContextLeftOpen ==
    (pc = "delay" /\ \A r \in DOMAIN prom : prom[r] # "rejected")
        => ctx = {0}

----------------------------------------------------------------------------
(* Termination of the coordinator run, checked under SpecLive *)

\* the run has ended: with the error of the first capture, or after every
\* batch was started and settled
Terminated ==
    \/ /\ pc = "threw"
       /\ first = "failed"
    \/ /\ pc = "returned"
       /\ first = "ok"
       /\ \A r \in DOMAIN prom : prom[r] \in {"fulfilled", "rejected"}
       /\ \A k \in DOMAIN attempts : attempts[k] = 1

\* C38: when every capture that is started settles, the coordinator run
\* terminates: the first capture fails and the run ends with its error, or
\* every batch is started and settles and the run returns; an item that
\* fails does not keep its batch waiting.
C38_RunTerminates == <>[]Terminated

\* a run of two batches has returned although the capture of an item of
\* the first batch failed and left no artifact
C38_Witness ==
    /\ pc = "returned"
    /\ Len(batchLog) = 2
    /\ \E r \in 1..batchSize : FileName(Rest[r]) \notin DOMAIN pages

====
